---- MODULE Spec2Model ----
(***************************************************************************)
(* Interview answer evaluation pipeline: EnhancedEvaluationService and the *)
(* analyzers it fans a transcript out to (EnhancedScoringService,          *)
(* StructureAnalyzer, CoverageAnalyzer, VoiceAnalyzer).                     *)
(*                                                                         *)
(* Text is modelled at word level.  A text is a sequence of tokens; a      *)
(* token is a word made of letters only, or the sentence terminator ".".  *)
(* The text a token sequence stands for is the tokens joined by single     *)
(* spaces, a "." being attached to what precedes it ("hash is fast." is   *)
(* <<"hash","is","fast",".">>).  A phrase (lexicon key, rubric concept,   *)
(* extracted concept) is a sequence of words, standing for the words       *)
(* joined by single spaces.                                                *)
(*                                                                         *)
(* Numbers with a fractional part are kept as scaled integers: a name      *)
(* ending in 10 is in tenths, in 100 in hundredths, in 1000 in thousandths.*)
(***************************************************************************)
EXTENDS Integers, Sequences, FiniteSets, TLC

VARIABLES
    pc,                \* position of the evaluate_answer call
    hashseed,          \* the process's string-hash seed (fixes set iteration order)
    answer,            \* the Answer object handed to evaluate_answer
    question,          \* the Question object handed to evaluate_answer, or None
    audio_path,        \* the audio file handed to evaluate_answer, or None
    audio_metadata,    \* local of evaluate_answer
    clarity_result,    \* local of evaluate_answer
    confidence_result, \* local of evaluate_answer
    technical_result,  \* local of evaluate_answer
    structure_result,  \* local of evaluate_answer
    coverage_result,   \* local of evaluate_answer
    evaluation,        \* the EvaluationResult returned to the caller
    previous,          \* what the preceding call with the same inputs returned
    direct_result,     \* report of an analyzer invoked on its own
    second,            \* a second evaluate_answer call in flight on the same service, or None
    service,           \* the fields of the scorer and analyzer objects the service holds
    sessions,          \* the rows of the interview_sessions table, by session id
    requests,          \* the evaluation request each worker process is handling
    responses          \* the number of 200 responses sent, by session id

vars == <<pc, hashseed, answer, question, audio_path, audio_metadata,
          clarity_result, confidence_result, technical_result,
          structure_result, coverage_result, evaluation, previous, direct_result,
          second, service, sessions, requests, responses>>

\* Python's None, where an object is expected
None == [none |-> TRUE]

\* Python's None, where a text is expected
NoneText == <<"<None>">>

(***************************************************************************)
(* Bounds                                                                  *)
(***************************************************************************)
\* A transcript is made of at most MaxChunks chunks of its vocabulary
MaxChunks == 2

\* The same, for the calls that are followed to their end, whose chunks have
\* at most MaxChunkLenFair tokens
MaxChunksFair == 1
MaxChunkLenFair == 4

\* The same, for the transcripts given to the coverage analyzer and to the
\* structure analyzer
MaxCoverageChunks == 3
MaxStructureChunks == 4

\* The same, for the transcripts given to the clarity scorer
MaxClarityChunks == 3

\* The same, for the transcripts given to the confidence scorer
MaxConfidenceChunks == 3

\* The same, for the transcripts whose suggestions are examined
MaxSuggestionChunks == 3

\* The same, for the transcripts that cover a rubric to every degree
MaxQualityChunks == 3

\* The sessions that can be created, the worker processes of the server, and
\* the requests one worker handles
MaxSessions == 2
MaxWorkers == 2
MaxRequestsPerWorker == 2

\* The hash seeds of a process are 0..MaxSeed
MaxSeed == 1

(***************************************************************************)
(* Generic helpers                                                         *)
(***************************************************************************)
Min(a, b) == IF a <= b THEN a ELSE b

Max(a, b) == IF a >= b THEN a ELSE b

RECURSIVE SumSeq(_)
SumSeq(s) == IF s = <<>> THEN 0 ELSE Head(s) + SumSeq(Tail(s))

RECURSIVE Flatten(_)
Flatten(ss) == IF ss = <<>> THEN <<>> ELSE Head(ss) \o Flatten(Tail(ss))

Take(s, n) == SubSeq(s, 1, Min(n, Len(s)))

Range(s) == {s[i] : i \in DOMAIN s}

Repeat(x, n) == [i \in 1..n |-> x]

\* Python's round(num/den, k) for num, den >= 0, as an integer in units of
\* 10^-k when num is already scaled by 10^k: nearest, ties to even.
RoundHalfEven(num, den) ==
    LET q == num \div den
        r == num % den
    IN  IF 2 * r < den THEN q
        ELSE IF 2 * r > den THEN q + 1
        ELSE IF q % 2 = 0 THEN q ELSE q + 1

\* A suggestion: a fixed text, and the concepts an f-string joins into it
Msg(text) == [text |-> text, concepts |-> <<>>]

MsgWith(text, concepts) == [text |-> text, concepts |-> concepts]

\* dict.get(key, default)
Get(d, key, default) == IF key \in DOMAIN d THEN d[key] ELSE default

(***************************************************************************)
(* Words                                                                   *)
(***************************************************************************)
\* str.lower() on one word.  Only the words listed have an upper-case letter.
Lower(w) ==
    CASE w = "I" -> "i"
      [] w = "Hash" -> "hash"
      [] w = "Bucket" -> "bucket"
      [] OTHER -> w

LowerText(t) == [i \in DOMAIN t |-> Lower(t[i])]

\* The words that hold a lexicon word as a proper substring:
\* <<key, word, where>> with where the place of key in word.
ProperSubstrings ==
    { <<"hash", "hashcode", "prefix">>,
      <<"code", "hashcode", "suffix">>,
      <<"so", "also", "suffix">>,
      <<"so", "absolutely", "infix">>,
      <<"the", "then", "prefix">>,
      <<"the", "therefore", "prefix">>,
      <<"is", "this", "suffix">> }

\* key is a substring of word
InWord(key, word) ==
    key = word \/ \E k \in {"prefix", "suffix", "infix"} : <<key, word, k>> \in ProperSubstrings

\* word ends with key
EndsWith(key, word) == key = word \/ <<key, word, "suffix">> \in ProperSubstrings

\* word starts with key
StartsWith(key, word) == key = word \/ <<key, word, "prefix">> \in ProperSubstrings

\* len(word)
WordLen(w) ==
    CASE w \in {"."} -> 1
      [] w \in {"I", "i", "a"} -> 1
      [] w \in {"um", "uh", "so", "is", "by", "it", "to", "me", "we", "if"} -> 2
      [] w \in {"the", "key", "are", "was", "let", "for", "map"} -> 3
      [] w \in {"hash", "Hash", "like", "then", "also", "this", "well", "fast", "uses",
                "code", "list", "data", "java", "maps", "when", "slow"} -> 4
      [] w \in {"first", "think", "maybe", "array", "value", "works", "point", "store"} -> 5
      [] w \in {"bucket", "lookup", "insert", "resize", "rehash", "always", "linear"} -> 6
      [] w \in {"because", "finally", "suppose", "clearly", "perhaps", "example", "imagine"} -> 7
      [] w \in {"function", "hashcode", "probably", "chaining", "constant"} -> 8
      [] w \in {"collision", "Collision", "mechanism", "therefore", "certainly",
                "algorithm", "initially", "precisely"} -> 9
      [] w \in {"definitely", "absolutely", "complexity"} -> 10

IsWord(tok) == tok # "."

(***************************************************************************)
(* Matching on token sequences                                             *)
(***************************************************************************)
\* Phrase p stands at token i as whole words (a regex \bp\b, or an alternative
\* of a \b(...)\b group, matched at the start of token i).
MatchAt(t, p, i) ==
    /\ i >= 1
    /\ i + Len(p) - 1 <= Len(t)
    /\ \A k \in 1..Len(p) : t[i + k - 1] = p[k]

\* Phrase p occurs as a substring starting in token i (the `in` operator and
\* str.count): its first word may end a token, its last word may begin one.
SubMatchAt(t, p, i) ==
    /\ i >= 1
    /\ i + Len(p) - 1 <= Len(t)
    /\ IF Len(p) = 1 THEN InWord(p[1], t[i])
       ELSE /\ EndsWith(p[1], t[i])
            /\ StartsWith(p[Len(p)], t[i + Len(p) - 1])
            /\ \A k \in 2..(Len(p) - 1) : t[i + k - 1] = p[k]

\* len(re.findall(r'\bp\b', t)): matches do not overlap
RECURSIVE CountWholeFrom(_, _, _)
CountWholeFrom(t, p, i) ==
    IF p = <<>> \/ i + Len(p) - 1 > Len(t) THEN 0
    ELSE IF MatchAt(t, p, i) THEN 1 + CountWholeFrom(t, p, i + Len(p))
    ELSE CountWholeFrom(t, p, i + 1)

CountWhole(t, p) == CountWholeFrom(t, p, 1)

\* t.count(p)
RECURSIVE CountSubFrom(_, _, _)
CountSubFrom(t, p, i) ==
    IF p = <<>> \/ i + Len(p) - 1 > Len(t) THEN 0
    ELSE IF SubMatchAt(t, p, i) THEN 1 + CountSubFrom(t, p, i + Len(p))
    ELSE CountSubFrom(t, p, i + 1)

CountSub(t, p) == CountSubFrom(t, p, 1)

\* p in t.  The empty phrase (the empty string) is in every text.
Contains(t, p) == p = <<>> \/ \E i \in 1..Len(t) : SubMatchAt(t, p, i)

\* Character offset at which token i starts: a word is preceded by one space
\* unless it opens the text, a "." by nothing.
CharOffset(t, i) ==
    SumSeq([k \in 1..(i - 1) |-> WordLen(t[k])])
    + Cardinality({k \in 2..i : IsWord(t[k])})

\* re.split(r'[.!?]+', t), stripped, empty pieces dropped: the maximal runs
\* of words, as <<first, last>> token indices.
SentenceRuns(t) ==
    { <<a, b>> \in (1..Len(t)) \X (1..Len(t)) :
        /\ a <= b
        /\ \A k \in a..b : IsWord(t[k])
        /\ (a = 1 \/ ~IsWord(t[a - 1]))
        /\ (b = Len(t) \/ ~IsWord(t[b + 1])) }

\* The number of words of the text, summed over its sentences
WordCount(t) == Cardinality({k \in 1..Len(t) : IsWord(t[k])})

\* len(t.split()): a "." is part of the word before it and is a piece of its
\* own only at the start of the text
SplitCount(t) ==
    WordCount(t) + (IF Len(t) >= 1 /\ ~IsWord(t[1]) THEN 1 ELSE 0)

(***************************************************************************)
(* EnhancedScoringService: lexicons                                        *)
(***************************************************************************)
\* self.filler_words, in insertion order; weights in tenths
filler_words ==
    << [key |-> <<"uh">>, weight10 |-> 10],
       [key |-> <<"um">>, weight10 |-> 10],
       [key |-> <<"like">>, weight10 |-> 5],
       [key |-> <<"you", "know">>, weight10 |-> 5],
       [key |-> <<"actually">>, weight10 |-> 3],
       [key |-> <<"basically">>, weight10 |-> 3],
       [key |-> <<"sort", "of">>, weight10 |-> 5],
       [key |-> <<"kind", "of">>, weight10 |-> 5],
       [key |-> <<"I", "mean">>, weight10 |-> 3],
       [key |-> <<"you", "see">>, weight10 |-> 3],
       [key |-> <<"right">>, weight10 |-> 2],
       [key |-> <<"so">>, weight10 |-> 2],
       [key |-> <<"well">>, weight10 |-> 3] >>

\* self.hesitation_markers, in insertion order; weights in tenths
hesitation_markers ==
    << [key |-> <<"let", "me", "think">>, weight10 |-> 20],
       [key |-> <<"let's", "see">>, weight10 |-> 15],
       [key |-> <<"I", "guess">>, weight10 |-> 10],
       [key |-> <<"maybe">>, weight10 |-> 10],
       [key |-> <<"perhaps">>, weight10 |-> 10],
       [key |-> <<"I", "think">>, weight10 |-> 5],
       [key |-> <<"I", "believe">>, weight10 |-> 3],
       [key |-> <<"probably">>, weight10 |-> 5] >>

\* self.passive_indicators
passive_indicators == {"is", "are", "was", "were", "been", "being", "by"}

\* self.confident_words
confident_words ==
    << <<"definitely">>, <<"certainly">>, <<"absolutely">>, <<"clearly">>,
       <<"obviously">>, <<"without", "doubt">>, <<"undoubtedly">>,
       <<"specifically">>, <<"precisely">> >>

\* flow_words of calculate_enhanced_clarity_score
flow_words ==
    << <<"first">>, <<"then">>, <<"next">>, <<"finally">>, <<"because">>,
       <<"therefore">>, <<"so">>, <<"however">> >>

\* technical_keywords of calculate_enhanced_technical_score
technical_keywords ==
    << <<"hash">>, <<"bucket">>, <<"collision">>, <<"array">>, <<"linked", "list">>,
       <<"key">>, <<"value">>, <<"hashcode">>, <<"equals">>, <<"load", "factor">>,
       <<"capacity">>, <<"resize">>, <<"rehash">>, <<"time", "complexity">>,
       <<"space", "complexity">>, <<"o(1)">>, <<"constant", "time">>, <<"chaining">>,
       <<"open", "addressing">>, <<"tree", "map">>, <<"red-black", "tree">> >>

(***************************************************************************)
(* EnhancedScoringService.calculate_enhanced_clarity_score                 *)
(***************************************************************************)
\* FillerCount10 adding the weight of a filler once, however often it occurs
RECURSIVE FillerCountOncePerFiller10(_, _)
FillerCountOncePerFiller10(transcript_lower, k) ==
    IF k > Len(filler_words) THEN 0
    ELSE (IF CountWhole(transcript_lower, filler_words[k].key) > 0
          THEN filler_words[k].weight10 ELSE 0)
         + FillerCountOncePerFiller10(transcript_lower, k + 1)

\* The loop over self.filler_words: filler_count (tenths) and filler_words_found
RECURSIVE FillerCount10(_, _)
FillerCount10(transcript_lower, k) ==
    IF k > Len(filler_words) THEN 0
    ELSE CountWhole(transcript_lower, filler_words[k].key) * filler_words[k].weight10
         + FillerCount10(transcript_lower, k + 1)

RECURSIVE FillerWordsFound(_, _)
FillerWordsFound(transcript_lower, k) ==
    IF k > Len(filler_words) THEN <<>>
    ELSE Repeat(filler_words[k].key, CountWhole(transcript_lower, filler_words[k].key))
         \o FillerWordsFound(transcript_lower, k + 1)

\* flow_count
FlowCount(transcript_lower) ==
    SumSeq([k \in 1..Len(flow_words) |-> CountSub(transcript_lower, flow_words[k])])

ClampScore(score) == Max(0, Min(10, score))

calculate_enhanced_clarity_score(transcript) ==
    LET transcript_lower == LowerText(transcript)
        filler_count10 == FillerCount10(transcript_lower, 1)
        filler_words_found == FillerWordsFound(transcript_lower, 1)
        sentence_count == Cardinality(SentenceRuns(transcript))
        total_words == WordCount(transcript)
        \* avg_sentence_length > 25 and < 8, the mean being total_words / sentence_count
        too_long == sentence_count > 0 /\ total_words > 25 * sentence_count
        too_short == sentence_count = 0 \/ total_words < 8 * sentence_count
        flow_count == FlowCount(transcript_lower)
        filler_deduct == IF filler_count10 > 80 THEN 4 ELSE IF filler_count10 > 40 THEN 2 ELSE 0
        sentence_deduct == IF sentence_count < 3 THEN 2
                           ELSE IF too_long THEN 1 ELSE IF too_short THEN 1 ELSE 0
        flow_deduct == IF flow_count = 0 THEN 2 ELSE 0
    IN  [ score |-> ClampScore(10 - filler_deduct - sentence_deduct - flow_deduct),
          issues |->
              (IF filler_count10 > 80 THEN <<"Excessive filler words detected">>
               ELSE IF filler_count10 > 40 THEN <<"Some filler words present">> ELSE <<>>)
              \o (IF sentence_count < 3 THEN <<"Too few complete sentences">>
                  ELSE IF too_long THEN <<"Sentences too long and complex">>
                  ELSE IF too_short THEN <<"Sentences too short and choppy">> ELSE <<>>)
              \o (IF flow_count = 0 THEN <<"Lacks logical flow indicators">> ELSE <<>>),
          evidence |->
              (IF filler_count10 > 80 THEN Take(filler_words_found, 5)
               ELSE IF filler_count10 > 40 THEN Take(filler_words_found, 3) ELSE <<>>),
          strengths |->
              (IF filler_count10 > 40 THEN <<>> ELSE <<"Minimal use of filler words">>)
              \o (IF sentence_count < 3 \/ too_long \/ too_short THEN <<>>
                  ELSE <<"Good sentence structure and length">>)
              \o (IF flow_count >= 3 THEN <<"Good logical flow with transitions">> ELSE <<>>),
          filler_count10 |-> filler_count10,
          sentence_count |-> sentence_count,
          avg_sentence_length10 |->
              IF sentence_count = 0 THEN 0
              ELSE RoundHalfEven(10 * total_words, sentence_count) ]

(***************************************************************************)
(* EnhancedScoringService.calculate_enhanced_confidence_score              *)
(***************************************************************************)
\* The loop over self.hesitation_markers: hesitation_count (tenths) and
\* hesitation_words_found.  The keys are compared as written, the text lowered.
RECURSIVE HesitationCount10(_, _)
HesitationCount10(transcript_lower, k) ==
    IF k > Len(hesitation_markers) THEN 0
    ELSE CountSub(transcript_lower, hesitation_markers[k].key) * hesitation_markers[k].weight10
         + HesitationCount10(transcript_lower, k + 1)

RECURSIVE HesitationWordsFound(_, _)
HesitationWordsFound(transcript_lower, k) ==
    IF k > Len(hesitation_markers) THEN <<>>
    ELSE Repeat(hesitation_markers[k].key,
                CountSub(transcript_lower, hesitation_markers[k].key))
         \o HesitationWordsFound(transcript_lower, k + 1)

\* sum(1 for word in words if word in self.passive_indicators), words being
\* transcript_lower.split(): a word with a "." attached is not an indicator
PassiveCount(transcript_lower) ==
    Cardinality({ i \in 1..Len(transcript_lower) :
        /\ transcript_lower[i] \in passive_indicators
        /\ (i = Len(transcript_lower) \/ IsWord(transcript_lower[i + 1])) })

\* ConfidentCount with == in the place of in: the confident words that are
\* the whole transcript
ConfidentCountWholeText(transcript_lower) ==
    Cardinality({ k \in 1..Len(confident_words) : transcript_lower = confident_words[k] })

\* sum(1 for word in self.confident_words if word in transcript_lower)
ConfidentCount(transcript_lower) ==
    Cardinality({ k \in 1..Len(confident_words) : Contains(transcript_lower, confident_words[k]) })

calculate_enhanced_confidence_score(transcript, metadata) ==
    LET transcript_lower == LowerText(transcript)
        hesitation_count10 == HesitationCount10(transcript_lower, 1)
        hesitation_words_found == HesitationWordsFound(transcript_lower, 1)
        n_words == SplitCount(transcript_lower)
        passive_count == PassiveCount(transcript_lower)
        \* passive_ratio > 0.2 and > 0.15, the ratio being passive_count / n_words
        heavy_passive == n_words > 0 /\ 5 * passive_count > n_words
        some_passive == n_words > 0 /\ 20 * passive_count > 3 * n_words
        confident_count == ConfidentCount(transcript_lower)
        has_audio == metadata # <<>>
        speaking_rate == Get(metadata, "speaking_rate", 150)
        long_pauses == Get(metadata, "long_pauses", 0)
        hesitation_deduct == IF hesitation_count10 > 50 THEN 3
                             ELSE IF hesitation_count10 > 20 THEN 1 ELSE 0
        passive_deduct == IF heavy_passive THEN 2 ELSE IF some_passive THEN 1 ELSE 0
        confident_deduct == IF confident_count = 0 THEN 1 ELSE 0
        voice_score ==
            IF has_audio
            THEN (IF speaking_rate < 100 \/ speaking_rate > 180 THEN -1 ELSE 0)
                 + (IF long_pauses > 3 THEN -2 ELSE 0)
            ELSE 0
    IN  [ score |-> ClampScore(10 - hesitation_deduct - passive_deduct - confident_deduct
                               + voice_score),
          issues |->
              (IF hesitation_count10 > 50 THEN <<"Frequent hesitation markers">>
               ELSE IF hesitation_count10 > 20 THEN <<"Some hesitation detected">> ELSE <<>>)
              \o (IF heavy_passive THEN <<"Heavy use of passive voice">>
                  ELSE IF some_passive THEN <<"Some passive language">> ELSE <<>>)
              \o (IF confident_count = 0 THEN <<"Lacks confident language">> ELSE <<>>)
              \o (IF ~has_audio THEN <<>>
                  ELSE (IF speaking_rate < 100 THEN <<"Speaking too slowly">>
                        ELSE IF speaking_rate > 180 THEN <<"Speaking too quickly">> ELSE <<>>)
                       \o (IF long_pauses > 3 THEN <<"Frequent long pauses">> ELSE <<>>)),
          evidence |-> (IF hesitation_count10 > 50 THEN Take(hesitation_words_found, 3) ELSE <<>>),
          strengths |->
              (IF hesitation_count10 > 20 THEN <<>> ELSE <<"Speaks with minimal hesitation">>)
              \o (IF heavy_passive \/ some_passive THEN <<>>
                  ELSE <<"Uses active voice effectively">>)
              \o (IF confident_count >= 3 THEN <<"Strong confident language">> ELSE <<>>)
              \o (IF ~has_audio THEN <<>>
                  ELSE (IF speaking_rate < 100 \/ speaking_rate > 180 THEN <<>>
                        ELSE <<"Good speaking pace">>)
                       \o (IF long_pauses <= 1 THEN <<"Smooth delivery with minimal pauses">>
                           ELSE <<>>)),
          hesitation_count10 |-> hesitation_count10,
          \* round(passive_ratio, 2); the ties of the model's texts (fewer than
          \* 40 words) are exact binary fractions
          passive_ratio100 |->
              IF n_words = 0 THEN 0 ELSE RoundHalfEven(100 * passive_count, n_words),
          confident_words |-> confident_count,
          voice_metrics |-> metadata ]

(***************************************************************************)
(* EnhancedScoringService.calculate_enhanced_technical_score               *)
(***************************************************************************)
\* Present without the c.lower(): the concept is looked up as the rubric
\* spells it
RECURSIVE PresentAsSpelled(_, _)
PresentAsSpelled(concepts, transcript_lower) ==
    IF concepts = <<>> THEN <<>>
    ELSE (IF Contains(transcript_lower, Head(concepts))
          THEN <<Head(concepts)>> ELSE <<>>)
         \o PresentAsSpelled(Tail(concepts), transcript_lower)

\* [c for c in concepts if c.lower() in transcript_lower], order kept
RECURSIVE Present(_, _)
Present(concepts, transcript_lower) ==
    IF concepts = <<>> THEN <<>>
    ELSE (IF Contains(transcript_lower, LowerText(Head(concepts)))
          THEN <<Head(concepts)>> ELSE <<>>)
         \o Present(Tail(concepts), transcript_lower)

\* [c for c in concepts if c.lower() not in transcript_lower], order kept
RECURSIVE Absent(_, _)
Absent(concepts, transcript_lower) ==
    IF concepts = <<>> THEN <<>>
    ELSE (IF Contains(transcript_lower, LowerText(Head(concepts)))
          THEN <<>> ELSE <<Head(concepts)>>)
         \o Absent(Tail(concepts), transcript_lower)

\* [k for k in technical_keywords if k in transcript_lower]
RECURSIVE FoundKeywords(_, _)
FoundKeywords(transcript_lower, k) ==
    IF k > Len(technical_keywords) THEN <<>>
    ELSE (IF Contains(transcript_lower, technical_keywords[k])
          THEN <<technical_keywords[k]>> ELSE <<>>)
         \o FoundKeywords(transcript_lower, k + 1)

\* ClampTechnical without the clamp: score = base_score
UnclampedTechnical(base_score) == base_score

\* score = min(10, max(0, base_score))
ClampTechnical(base_score) == Min(10, Max(0, base_score))

\* round(len(covered) / (len(missing) + len(covered)) * 100, 1), 0 if both are empty
TechnicalCoveragePercentage10(n_covered, n_missing) ==
    IF n_covered + n_missing = 0 THEN 0
    ELSE RoundHalfEven(1000 * n_covered, n_covered + n_missing)

\* A dict is true unless it is empty or None
IsTruthyDict(d) == d # None /\ d # <<>>

calculate_enhanced_technical_score(transcript, question_rubric) ==
    LET transcript_lower == LowerText(transcript)
    IN  IF IsTruthyDict(question_rubric)
        THEN LET must_have == Get(question_rubric, "must_have_concepts", <<>>)
                 good_to_have == Get(question_rubric, "good_to_have_concepts", <<>>)
                 red_flags == Get(question_rubric, "red_flags", <<>>)
                 must_found == Present(must_have, transcript_lower)
                 missing_concepts == Absent(must_have, transcript_lower)
                 good_found == Present(good_to_have, transcript_lower)
                 red_flag_found == Present(red_flags, transcript_lower)
                 covered_concepts == must_found \o good_found
                 base_score == 2 * Len(must_found) + Len(good_found) - 2 * Len(red_flag_found)
                 total_concepts == Len(must_have) + Len(good_to_have)
                 n_covered == Len(covered_concepts)
                 \* coverage_ratio >= 0.8, >= 0.6, < 0.4; the ratio is 0 without concepts
                 ratio_ge_08 == total_concepts > 0 /\ 10 * n_covered >= 8 * total_concepts
                 ratio_ge_06 == total_concepts > 0 /\ 10 * n_covered >= 6 * total_concepts
                 ratio_lt_04 == total_concepts = 0 \/ 10 * n_covered < 4 * total_concepts
             IN  [ score |-> ClampTechnical(base_score),
                   issues |->
                       (IF ~ratio_ge_08 /\ ~ratio_ge_06 /\ ratio_lt_04
                        THEN <<"Insufficient coverage of key concepts">> ELSE <<>>)
                       \o (IF missing_concepts # <<>>
                           THEN <<"Missing key concepts">> ELSE <<>>)
                       \o (IF red_flag_found # <<>>
                           THEN <<"Potential misconceptions">> ELSE <<>>),
                   issue_concepts |-> Take(missing_concepts, 3),
                   issue_red_flags |-> red_flag_found,
                   evidence |-> <<>>,
                   strengths |->
                       (IF ratio_ge_08 THEN <<"Comprehensive coverage of key concepts">>
                        ELSE IF ratio_ge_06 THEN <<"Good coverage of main concepts">>
                        ELSE <<>>),
                   missing_concepts |-> missing_concepts,
                   covered_concepts |-> covered_concepts,
                   coverage_percentage10 |->
                       TechnicalCoveragePercentage10(n_covered, Len(missing_concepts)) ]
        ELSE LET found_keywords == FoundKeywords(transcript_lower, 1)
                 score == Min(10, Len(found_keywords))
             IN  [ score |-> score,
                   issues |-> (IF score >= 4 THEN <<>>
                               ELSE <<"Limited technical terminology">>),
                   issue_concepts |-> <<>>,
                   issue_red_flags |-> <<>>,
                   evidence |-> Take(found_keywords, 5),
                   strengths |->
                       (IF score >= 7 THEN <<"Strong technical vocabulary">>
                        ELSE IF score >= 4 THEN <<"Adequate technical knowledge">>
                        ELSE <<>>),
                   missing_concepts |-> <<>>,
                   covered_concepts |-> <<>>,
                   coverage_percentage10 |-> 0 ]

(***************************************************************************)
(* StructureAnalyzer                                                       *)
(***************************************************************************)
\* The components, in the insertion order of self.structure_patterns
Components == <<"introduction", "explanation", "example", "conclusion">>

\* self.structure_patterns: each pattern is a \b(...)\b group of alternatives.
\* literal holds the alternatives that are fixed phrases; wild holds the
\* alternatives "pre .+ suf" as <<pre, suf>> (pre empty for ".+ suf").
structure_patterns(component) ==
    CASE component = "introduction" ->
           << [literal |-> {<<"first">>, <<"to", "start">>, <<"in", "the", "beginning">>,
                            <<"initially">>, <<"let", "me", "begin">>, <<"i'll", "start">>},
               wild |-> {}],
              [literal |-> {},
               wild |-> {<< <<"a">>, <<"is">> >>, << <<"the">>, <<"is">> >>,
                         << <<>>, <<"refers", "to">> >>,
                         << <<>>, <<"can", "be", "defined", "as">> >>}] >>
      [] component = "explanation" ->
           << [literal |-> {<<"it", "works", "by">>, <<"the", "way", "it", "works">>,
                            <<"how", "it", "works">>, <<"the", "mechanism">>},
               wild |-> {}],
              [literal |-> {<<"because">>, <<"since">>, <<"due", "to">>,
                            <<"as", "a", "result">>, <<"therefore">>},
               wild |-> {}],
              [literal |-> {<<"the", "process", "involves">>, <<"steps", "include">>,
                            <<"the", "algorithm">>},
               wild |-> {}] >>
      [] component = "example" ->
           << [literal |-> {<<"for", "example">>, <<"for", "instance">>, <<"such", "as">>,
                            <<"like">>, <<"consider">>},
               wild |-> {}],
              [literal |-> {<<"let's", "say">>, <<"imagine">>, <<"suppose">>,
                            <<"if", "we", "have">>},
               wild |-> {}],
              [literal |-> {<<"in", "practice">>, <<"in", "real", "world">>,
                            <<"practically">>},
               wild |-> {}] >>
      [] component = "conclusion" ->
           << [literal |-> {<<"finally">>, <<"in", "conclusion">>, <<"to", "summarize">>,
                            <<"in", "summary">>, <<"so", "overall">>},
               wild |-> {}],
              [literal |-> {<<"to", "wrap", "up">>, <<"in", "conclusion">>,
                            <<"as", "you", "can", "see">>},
               wild |-> {}],
              [literal |-> {<<"the", "key", "point", "is">>,
                            <<"the", "main", "takeaway", "is">>},
               wild |-> {}] >>

\* An alternative "pre .+ suf" matches from token i: pre stands at i followed
\* by a space, then at least one character, then a space and suf.  With pre
\* empty the match starts at a word and ".+" takes at least that word.
WildMatchAt(t, pre, suf, i) ==
    /\ i >= 1 /\ i <= Len(t) /\ IsWord(t[i])
    /\ IF pre = <<>>
       THEN \E j \in (i + 1)..Len(t) : MatchAt(t, suf, j)
       ELSE /\ MatchAt(t, pre, i)
            /\ i + Len(pre) <= Len(t) /\ IsWord(t[i + Len(pre)])
            /\ \E j \in (i + Len(pre) + 1)..Len(t) : MatchAt(t, suf, j)

\* Token indices at which a match of the pattern starts
PatternStarts(t, pattern) ==
    { i \in 1..Len(t) :
        \/ \E p \in pattern.literal : MatchAt(t, p, i)
        \/ \E w \in pattern.wild : WildMatchAt(t, w[1], w[2], i) }

SetMin(S) == CHOOSE x \in S : \A y \in S : x <= y

\* matches[0].start() of re.finditer(pattern, transcript_lower), -1 without a match
FirstMatchStart(t, pattern) ==
    LET starts == PatternStarts(t, pattern)
    IN  IF starts = {} THEN -1 ELSE CharOffset(t, SetMin(starts))

\* The loop over a component's patterns: each pattern that matches overwrites
\* structure_positions[component] with the start of its own first match.
RECURSIVE PositionAfter(_, _, _, _)
PositionAfter(t, patterns, k, position) ==
    IF k > Len(patterns) THEN position
    ELSE LET start == FirstMatchStart(t, patterns[k])
         IN  PositionAfter(t, patterns, k + 1, IF start >= 0 THEN start ELSE position)

DetectPositions(transcript_lower) ==
    [ c \in Range(Components) |->
        PositionAfter(transcript_lower, structure_patterns(c), 1, -1) ]

DetectComponents(transcript_lower) ==
    [ c \in Range(Components) |->
        \E k \in 1..Len(structure_patterns(c)) :
            PatternStarts(transcript_lower, structure_patterns(c)[k]) # {} ]

\* component_weights with the weights of example and conclusion exchanged
ComponentWeightsExchanged10(component) ==
    CASE component = "introduction" -> 25
      [] component = "explanation" -> 30
      [] component = "example" -> 25
      [] component = "conclusion" -> 20

\* component_weights of _calculate_structure_score, in tenths
component_weights10(component) ==
    CASE component = "introduction" -> 25
      [] component = "explanation" -> 30
      [] component = "example" -> 20
      [] component = "conclusion" -> 25

\* order.index(component) in _is_logical_order
OrderIndex(component) ==
    CASE component = "introduction" -> 0
      [] component = "explanation" -> 1
      [] component = "example" -> 2
      [] component = "conclusion" -> 3

\* Rank of the component names as Python compares strings
NameRank(component) ==
    CASE component = "conclusion" -> 0
      [] component = "example" -> 1
      [] component = "explanation" -> 2
      [] component = "introduction" -> 3

\* (pos, comp) tuples compare by position, then by name
TupleLess(positions, c, d) ==
    \/ positions[c] < positions[d]
    \/ positions[c] = positions[d] /\ NameRank(c) < NameRank(d)

\* detected_positions.sort(), then the components of the sorted tuples
RECURSIVE SortedComponents(_, _)
SortedComponents(positions, S) ==
    IF S = {} THEN <<>>
    ELSE CHOOSE sorted \in
             { <<first>> \o SortedComponents(positions, S \ {first}) :
                 first \in {c \in S : \A d \in S \ {c} : TupleLess(positions, c, d)} } : TRUE

\* _is_logical_order comparing the positions alone, equal positions accepted
PositionsNonDecreasing(positions) ==
    \A c, d \in {x \in DOMAIN positions : positions[x] >= 0} :
        OrderIndex(c) < OrderIndex(d) => positions[c] <= positions[d]

\* _is_logical_order with the comparison of the two indices turned round
LogicalOrderComparisonReversed(positions) ==
    \A detected_components \in
           {SortedComponents(p, {c \in DOMAIN p : p[c] >= 0}) : p \in {positions}} :
        \A i \in 1..(Len(detected_components) - 1) :
            ~(OrderIndex(detected_components[i]) < OrderIndex(detected_components[i + 1]))

_is_logical_order(positions) ==
    \A detected_components \in
           {SortedComponents(p, {c \in DOMAIN p : p[c] >= 0}) : p \in {positions}} :
        \A i \in 1..(Len(detected_components) - 1) :
            ~(OrderIndex(detected_components[i]) > OrderIndex(detected_components[i + 1]))

\* _calculate_structure_score without the min(10.0, .)
StructureScoreUnclamped(structure_detected, positions) ==
    SumSeq([k \in 1..Len(Components) |->
               IF structure_detected[Components[k]]
               THEN component_weights10(Components[k]) ELSE 0])
    + (IF _is_logical_order(positions) THEN 10 ELSE 0)

\* In tenths
_calculate_structure_score(structure_detected, positions) ==
    LET base_score10 ==
            SumSeq([k \in 1..Len(Components) |->
                       IF structure_detected[Components[k]]
                       THEN component_weights10(Components[k]) ELSE 0])
            + (IF _is_logical_order(positions) THEN 10 ELSE 0)
    IN  Min(100, base_score10)

_identify_structure_issues(structure_detected, positions) ==
    (IF ~structure_detected["introduction"] THEN <<"Missing clear introduction">> ELSE <<>>)
    \o (IF ~structure_detected["explanation"] THEN <<"Lacks detailed explanation">> ELSE <<>>)
    \o (IF ~structure_detected["example"] THEN <<"No examples provided">> ELSE <<>>)
    \o (IF ~structure_detected["conclusion"] THEN <<"Missing conclusion or summary">> ELSE <<>>)
    \o (IF /\ structure_detected["example"] /\ structure_detected["introduction"]
           /\ positions["explanation"] = -1
           /\ positions["example"] > positions["introduction"]
        THEN <<"Example appears before explanation">> ELSE <<>>)

_generate_structure_suggestions(structure_detected, issues) ==
    (IF ~structure_detected["introduction"]
     THEN <<Msg("Start with a clear definition or overview")>> ELSE <<>>)
    \o (IF ~structure_detected["explanation"]
        THEN <<Msg("Provide detailed explanation of how things work")>> ELSE <<>>)
    \o (IF ~structure_detected["example"]
        THEN <<Msg("Include real-world examples to illustrate concepts")>> ELSE <<>>)
    \o (IF ~structure_detected["conclusion"]
        THEN <<Msg("End with a summary or key takeaway")>> ELSE <<>>)
    \o (IF Len(issues) > 2
        THEN <<Msg("Structure your answer with clear beginning, middle, and end")>> ELSE <<>>)

_assess_logical_flow(structure_detected, positions) ==
    LET detected_count == Cardinality({c \in DOMAIN structure_detected : structure_detected[c]})
    IN  IF detected_count = 0 THEN "no_structure"
        ELSE IF detected_count = 1 THEN "minimal_structure"
        ELSE IF detected_count = 2 THEN "basic_structure"
        ELSE IF detected_count = 3 THEN "good_structure"
        ELSE IF _is_logical_order(positions) THEN "excellent_structure"
        ELSE "disorganized_structure"

\* The evidence snippets and the sentence-level report are left out: they
\* feed neither the score nor the issues, the suggestions or the label.
analyze_answer_structure(transcript) ==
    LET transcript_lower == LowerText(transcript)
        structure_detected == DetectComponents(transcript_lower)
        structure_positions == DetectPositions(transcript_lower)
        structure_issues == _identify_structure_issues(structure_detected, structure_positions)
    IN  [ structure_detected |-> structure_detected,
          structure_positions |-> structure_positions,
          structure_score10 |-> _calculate_structure_score(structure_detected, structure_positions),
          issues |-> structure_issues,
          suggestions |-> _generate_structure_suggestions(structure_detected, structure_issues),
          total_sentences |-> Cardinality(SentenceRuns(transcript)),
          logical_flow |-> _assess_logical_flow(structure_detected, structure_positions) ]

(***************************************************************************)
(* CoverageAnalyzer                                                        *)
(***************************************************************************)
\* self.concept_patterns: the alternatives of each \b(...)\b group, in order
concept_patterns(category) ==
    CASE category = "technical_terms" ->
           << <<"hash">>, <<"bucket">>, <<"collision">>, <<"array">>, <<"linked", "list">>,
              <<"key">>, <<"value">>, <<"hashcode">>, <<"equals">>, <<"load", "factor">>,
              <<"capacity">>, <<"resize">>, <<"rehash">>, <<"time", "complexity">>,
              <<"space", "complexity">>, <<"o(1)">>, <<"constant", "time">>, <<"chaining">>,
              <<"open", "addressing">>, <<"tree", "map">>, <<"red-black", "tree">>,
              <<"thread", "safety">>, <<"synchronization">>, <<"concurrent">> >>
      [] category = "process_terms" ->
           << <<"initialize">>, <<"insert">>, <<"delete">>, <<"search">>, <<"lookup">>,
              <<"iterate">>, <<"resize">>, <<"rehash">>, <<"collision", "resolution">>,
              <<"hash", "function">> >>
      [] category = "performance_terms" ->
           << <<"average", "case">>, <<"worst", "case">>, <<"amortized">>, <<"big", "o">>,
              <<"complexity">>, <<"scalability">>, <<"performance">>, <<"efficiency">>,
              <<"optimization">> >>
      [] category = "implementation_terms" ->
           << <<"java">>, <<"python">>, <<"c++">>, <<"implementation">>, <<"code">>,
              <<"algorithm">>, <<"data", "structure">>, <<"class">>, <<"method">>,
              <<"function">> >>

Categories == {"technical_terms", "process_terms", "performance_terms", "implementation_terms"}

\* The alternatives of the group that match at token i, in the group's order
AlternativesAt(t, alternatives, i) ==
    SelectSeq(alternatives, LAMBDA p : MatchAt(t, p, i))

\* set(re.findall(pattern, t)): scan left to right, the first alternative that
\* matches at a position is taken and the scan goes on behind it
RECURSIVE FindAllFrom(_, _, _)
FindAllFrom(t, alternatives, i) ==
    IF i > Len(t) THEN {}
    ELSE LET here == AlternativesAt(t, alternatives, i)
         IN  IF here = <<>> THEN FindAllFrom(t, alternatives, i + 1)
             ELSE {here[1]} \cup FindAllFrom(t, alternatives, i + Len(here[1]))

\* set(re.findall(r'\b[a-z]+(?:\s+[a-z]+)?\b', t)): a word, with the word
\* after it when only white space separates the two
RECURSIVE WordConceptsFrom(_, _)
WordConceptsFrom(t, i) ==
    IF i > Len(t) THEN {}
    ELSE IF ~IsWord(t[i]) THEN WordConceptsFrom(t, i + 1)
    ELSE IF i < Len(t) /\ IsWord(t[i + 1])
         THEN {<<t[i], t[i + 1]>>} \cup WordConceptsFrom(t, i + 2)
         ELSE {<<t[i]>>} \cup WordConceptsFrom(t, i + 1)

\* text is lower case already
_extract_concepts(text) ==
    UNION {FindAllFrom(text, concept_patterns(c), 1) : c \in Categories}
    \cup WordConceptsFrom(text, 1)

\* percentage is coverage_percentage before rounding, as covered / expected
_assess_coverage_quality(n_covered, n_expected) ==
    IF n_expected = 0 THEN "very_poor"
    ELSE IF 100 * n_covered >= 90 * n_expected THEN "excellent"
    ELSE IF 100 * n_covered >= 75 * n_expected THEN "very_good"
    ELSE IF 100 * n_covered >= 60 * n_expected THEN "good"
    ELSE IF 100 * n_covered >= 40 * n_expected THEN "adequate"
    ELSE IF 100 * n_covered >= 25 * n_expected THEN "poor"
    ELSE "very_poor"

\* jaccard_score is common / union before rounding
_rate_similarity(n_common, n_union) ==
    IF n_union = 0 THEN "very_low"
    ELSE IF 10 * n_common >= 8 * n_union THEN "very_high"
    ELSE IF 10 * n_common >= 6 * n_union THEN "high"
    ELSE IF 10 * n_common >= 4 * n_union THEN "moderate"
    ELSE IF 10 * n_common >= 2 * n_union THEN "low"
    ELSE "very_low"

\* Some fixed enumeration of a set; x is each time the one chosen element
RECURSIVE Enumerate(_)
Enumerate(S) ==
    IF S = {} THEN <<>>
    ELSE CHOOSE e \in { <<x>> \o Enumerate(S \ {x}) : x \in {CHOOSE y \in S : TRUE} } : TRUE

\* list(S) cut to its first three entries, as the suggestions cut the missing
\* concepts
ListOfSetCutToThree(S, seed) == Take(Enumerate(S), 3)

\* list(S) for a set of strings: the order follows the hashes of the strings,
\* which the process's hash seed fixes.  Each seed gives a rotation of one
\* enumeration of the set.
ListOfSet(S, seed) ==
    CHOOSE l \in { [i \in 1..Len(e) |-> e[((i - 1 + seed) % Len(e)) + 1]] :
                     e \in {Enumerate(T) : T \in {S}} } : TRUE

\* JaccardSimilarity1000 dividing by the ideal concepts instead of the union
OverlapOfIdeal1000(transcript_concepts, ideal_concepts) ==
    IF ideal_concepts = {} THEN 0
    ELSE RoundHalfEven(1000 * Cardinality(transcript_concepts \cap ideal_concepts),
                       Cardinality(ideal_concepts))

\* round(jaccard_similarity, 3), in thousandths
JaccardSimilarity1000(transcript_concepts, ideal_concepts) ==
    LET common_concepts == transcript_concepts \cap ideal_concepts
        union == transcript_concepts \cup ideal_concepts
    IN  IF union = {} THEN 0
        ELSE RoundHalfEven(1000 * Cardinality(common_concepts), Cardinality(union))

\* transcript and ideal are lower case already.  The concept lists of the
\* comparison are left out.
_compare_with_ideal(transcript, ideal) ==
    LET transcript_concepts == _extract_concepts(transcript)
        ideal_concepts == _extract_concepts(ideal)
        transcript_words == SplitCount(transcript)
        ideal_words == SplitCount(ideal)
    IN  [ jaccard_similarity1000 |-> JaccardSimilarity1000(transcript_concepts, ideal_concepts),
          length_ratio100 |->
              IF ideal_words > 0 THEN RoundHalfEven(100 * transcript_words, ideal_words) ELSE 0,
          similarity_rating |->
              _rate_similarity(Cardinality(transcript_concepts \cap ideal_concepts),
                               Cardinality(transcript_concepts \cup ideal_concepts)) ]

\* _generate_coverage_suggestions without the praise for very good and
\* excellent coverage
CoverageSuggestionsWithoutPraise(missing_list, quality) ==
    (IF quality \in {"very_poor", "poor"}
     THEN <<Msg("Focus on covering the fundamental concepts first"),
            Msg("Study the core terminology and definitions")>>
     ELSE <<>>)
    \o (IF missing_list # <<>>
        THEN <<MsgWith("Consider including", Take(missing_list, 3))>> ELSE <<>>)
    \o (IF quality \in {"adequate", "good"}
        THEN <<Msg("Add more depth to your explanations"),
               Msg("Include real-world examples to illustrate concepts")>>
        ELSE <<>>)

_generate_coverage_suggestions(missing_list, quality) ==
    (IF quality \in {"very_poor", "poor"}
     THEN <<Msg("Focus on covering the fundamental concepts first"),
            Msg("Study the core terminology and definitions")>>
     ELSE <<>>)
    \o (IF missing_list # <<>>
        THEN <<MsgWith("Consider including", Take(missing_list, 3))>> ELSE <<>>)
    \o (IF quality \in {"adequate", "good"}
        THEN <<Msg("Add more depth to your explanations"),
               Msg("Include real-world examples to illustrate concepts")>>
        ELSE <<>>)
    \o (IF quality \in {"very_good", "excellent"}
        THEN <<Msg("Great coverage! Consider edge cases and advanced topics")>>
        ELSE <<>>)

\* A text is true unless it is None or empty
IsTruthyText(text) == text # NoneText /\ text # <<>>

\* CoveragePercentage10 reporting full coverage when nothing is expected
CoverageFullWhenNothingExpected10(n_covered, n_expected) ==
    IF n_expected = 0 THEN 1000 ELSE RoundHalfEven(1000 * n_covered, n_expected)

\* round(coverage_percentage, 1), in tenths of a percent
CoveragePercentage10(n_covered, n_expected) ==
    IF n_expected = 0 THEN 0 ELSE RoundHalfEven(1000 * n_covered, n_expected)

\* The per-category concept_analysis is left out.
analyze_concept_coverage(transcript, ideal_answer, question_rubric, seed) ==
    LET transcript_lower == LowerText(transcript)
        transcript_concepts == _extract_concepts(transcript_lower)
        rubric_concepts ==
            IF IsTruthyDict(question_rubric)
            THEN Range(Get(question_rubric, "must_have_concepts", <<>>))
                 \cup Range(Get(question_rubric, "good_to_have_concepts", <<>>))
            ELSE {}
        ideal_concepts ==
            IF IsTruthyText(ideal_answer) THEN _extract_concepts(LowerText(ideal_answer))
            ELSE {}
        expected_concepts == rubric_concepts \cup ideal_concepts
        covered_concepts == transcript_concepts \cap expected_concepts
        missing_concepts == expected_concepts \ transcript_concepts
        additional_concepts == transcript_concepts \ expected_concepts
        coverage_quality ==
            _assess_coverage_quality(Cardinality(covered_concepts), Cardinality(expected_concepts))
        missing_list == ListOfSet(missing_concepts, seed)
    IN  [ coverage_percentage10 |->
              CoveragePercentage10(Cardinality(covered_concepts), Cardinality(expected_concepts)),
          covered_concepts |-> ListOfSet(covered_concepts, seed),
          missing_concepts |-> missing_list,
          additional_concepts |-> ListOfSet(additional_concepts, seed),
          total_expected |-> Cardinality(expected_concepts),
          total_covered |-> Cardinality(covered_concepts),
          coverage_quality |-> coverage_quality,
          ideal_comparison |->
              IF IsTruthyText(ideal_answer)
              THEN _compare_with_ideal(transcript_lower, LowerText(ideal_answer))
              ELSE None,
          suggestions |-> _generate_coverage_suggestions(missing_list, coverage_quality) ]

(***************************************************************************)
(* VoiceAnalyzer                                                           *)
(***************************************************************************)
\* analyze_audio_features returning a bag of zeroed features when the
\* extraction raises
AnalyzeAudioFeaturesZeroedOnFailure(path) ==
    [ duration |-> IF path.readable THEN path.duration ELSE 0,
      speaking_rate |-> IF path.readable THEN path.speaking_rate ELSE 0,
      pause_analysis |-> [ total_pauses |-> path.total_pauses,
                           long_pauses |-> path.long_pauses ] ]

\* An audio file is modelled by what librosa measures on it; a file librosa
\* cannot load has readable FALSE.  The energy and pitch statistics, which
\* nothing reads, are left out.
analyze_audio_features(path) ==
    IF path.readable
    THEN [ duration |-> path.duration,
           speaking_rate |-> path.speaking_rate,
           pause_analysis |-> [ total_pauses |-> path.total_pauses,
                                long_pauses |-> path.long_pauses ] ]
    ELSE <<>>

(***************************************************************************)
(* EnhancedEvaluationService                                               *)
(***************************************************************************)
\* _calculate_overall_score with the weights of clarity and technical exchanged
OverallScoreWeightsExchanged(clarity, confidence, technical) ==
    RoundHalfEven(clarity * 4 + technical * 3 + confidence * 3, 1)

\* round(technical * 0.4 + clarity * 0.3 + confidence * 0.3, 1), in tenths.
\* The three scores are integers, so the weighted sum is a whole number of
\* tenths and rounding to one decimal leaves it as it is.
_calculate_overall_score(clarity, confidence, technical) ==
    RoundHalfEven(technical * 4 + clarity * 3 + confidence * 3, 1)

\* list(dict.fromkeys(s)): the first occurrence of each entry, in order
RECURSIVE Unique(_)
Unique(s) ==
    IF s = <<>> THEN <<>>
    ELSE Unique(SubSeq(s, 1, Len(s) - 1))
         \o (IF s[Len(s)] \in Range(SubSeq(s, 1, Len(s) - 1)) THEN <<>> ELSE <<s[Len(s)]>>)

\* LimitSuggestions without the [:5]
UniqueSuggestionsUncut(s) == Unique(s)

\* unique_suggestions[:5]
LimitSuggestions(s) == Take(Unique(s), 5)

_generate_comprehensive_suggestions(clarity, confidence, technical, structure, coverage) ==
    LET clarity_part ==
            IF clarity.score < 6
            THEN [i \in 1..Len(clarity.strengths) |-> Msg(clarity.strengths[i])]
                 \o (IF clarity.filler_count10 > 50
                     THEN <<Msg("Practice reducing filler words like 'um', 'uh', 'like'")>>
                     ELSE <<>>)
                 \o (IF clarity.sentence_count < 3
                     THEN <<Msg("Structure your answer with more complete sentences")>>
                     ELSE <<>>)
            ELSE <<>>
        confidence_part ==
            IF confidence.score < 6
            THEN (IF confidence.hesitation_count10 > 30
                  THEN <<Msg("Practice your answers to reduce hesitation")>> ELSE <<>>)
                 \o (IF confidence.passive_ratio100 > 15
                     THEN <<Msg("Use more active voice to sound more confident")>> ELSE <<>>)
                 \o (IF confidence.confident_words = 0
                     THEN <<Msg("Include confident language like 'definitely', 'certainly'")>>
                     ELSE <<>>)
            ELSE <<>>
        technical_part ==
            IF technical.score < 6
            THEN (IF technical.missing_concepts # <<>>
                  THEN <<MsgWith("Study these key concepts", Take(technical.missing_concepts, 3))>>
                  ELSE <<>>)
                 \o (IF technical.coverage_percentage10 < 500
                     THEN <<Msg("Focus on covering the fundamental concepts first")>>
                     ELSE <<>>)
            ELSE <<>>
        structure_part ==
            IF Get(structure, "issues", <<>>) # <<>>
            THEN Get(structure, "suggestions", <<>>) ELSE <<>>
        coverage_part == Get(coverage, "suggestions", <<>>)
    IN  LimitSuggestions(clarity_part \o confidence_part \o technical_part
                         \o structure_part \o coverage_part)

\* _create_fallback_evaluation with the overall score left at 0.0
FallbackWithZeroOverall(a) ==
    [ answer_id |-> a.answer_id,
      clarity_score |-> [score |-> 5, issues |-> <<"Evaluation failed">>,
                         evidence |-> <<>>, strengths |-> <<>>],
      confidence_score |-> [score |-> 5, issues |-> <<"Evaluation failed">>,
                            evidence |-> <<>>, strengths |-> <<>>],
      technical_score |-> [score |-> 5, issues |-> <<"Evaluation failed">>,
                           evidence |-> <<>>, strengths |-> <<>>],
      structure_analysis |-> [structure_score10 |-> 50,
                              issues |-> <<"Structure analysis failed">>],
      coverage_analysis |-> [coverage_percentage10 |-> 500,
                             issues |-> <<"Coverage analysis failed">>],
      overall_score10 |-> 0,
      suggestions |-> <<Msg("Please try again or contact support if the issue persists")>> ]

_create_fallback_evaluation(a) ==
    [ answer_id |-> a.answer_id,
      clarity_score |-> [score |-> 5, issues |-> <<"Evaluation failed">>,
                         evidence |-> <<>>, strengths |-> <<>>],
      confidence_score |-> [score |-> 5, issues |-> <<"Evaluation failed">>,
                            evidence |-> <<>>, strengths |-> <<>>],
      technical_score |-> [score |-> 5, issues |-> <<"Evaluation failed">>,
                           evidence |-> <<>>, strengths |-> <<>>],
      structure_analysis |-> [structure_score10 |-> 50,
                              issues |-> <<"Structure analysis failed">>],
      coverage_analysis |-> [coverage_percentage10 |-> 500,
                             issues |-> <<"Coverage analysis failed">>],
      overall_score10 |-> 50,
      suggestions |-> <<Msg("Please try again or contact support if the issue persists")>> ]

\* The dict evaluate_answer builds from the question for the two rubric users
RubricOf(q) ==
    [ must_have_concepts |-> q.must_have_concepts,
      good_to_have_concepts |-> q.good_to_have_concepts,
      red_flags |-> q.red_flags ]

\* Stands for None where a number is expected
NoDuration == -1

\* What the constructors leave in the objects the service holds: the tables
\* the scorers and analyzers read
ConstructedService ==
    [ filler_words |-> filler_words,
      hesitation_markers |-> hesitation_markers,
      passive_indicators |-> passive_indicators,
      confident_words |-> confident_words,
      structure_patterns |-> [c \in Range(Components) |-> structure_patterns(c)],
      concept_patterns |-> [c \in Categories |-> concept_patterns(c)] ]

\* evaluate_answer, lines 29-36: the audio features, stored on the answer
Begin ==
    /\ pc = "ready"
    /\ IF audio_path # None
       THEN /\ audio_metadata' = analyze_audio_features(audio_path)
            /\ answer' = [answer EXCEPT
                              !.audio_duration = Get(audio_metadata', "duration", 0),
                              !.audio_metadata = audio_metadata']
       ELSE /\ audio_metadata' = <<>>
            /\ answer' = answer
    /\ pc' = "clarity"
    /\ UNCHANGED <<hashseed, question, audio_path, clarity_result, confidence_result,
                   technical_result, structure_result, coverage_result, evaluation,
                   previous, direct_result, second, service, sessions, requests, responses>>

\* except Exception: return self._create_fallback_evaluation(answer)
Fallback ==
    /\ evaluation' = _create_fallback_evaluation(answer)
    /\ pc' = "done"

\* ClarityStep with the clarity scorer raising on an empty transcript as it
\* does on None
ClarityStepRejectingEmpty ==
    /\ pc = "clarity"
    /\ IF answer.transcript = NoneText \/ answer.transcript = <<>>
       THEN Fallback /\ UNCHANGED clarity_result
       ELSE /\ clarity_result' = calculate_enhanced_clarity_score(answer.transcript)
            /\ pc' = "confidence"
            /\ UNCHANGED evaluation
    /\ UNCHANGED <<hashseed, answer, question, audio_path, audio_metadata, confidence_result,
                   technical_result, structure_result, coverage_result, previous,
                   direct_result, second, service, sessions, requests, responses>>

\* line 39; str.lower() of None raises
ClarityStep ==
    /\ pc = "clarity"
    /\ IF answer.transcript = NoneText
       THEN Fallback /\ UNCHANGED clarity_result
       ELSE /\ clarity_result' = calculate_enhanced_clarity_score(answer.transcript)
            /\ pc' = "confidence"
            /\ UNCHANGED evaluation
    /\ UNCHANGED <<hashseed, answer, question, audio_path, audio_metadata, confidence_result,
                   technical_result, structure_result, coverage_result, previous,
                   direct_result, second, service, sessions, requests, responses>>

\* lines 40-42
ConfidenceStep ==
    /\ pc = "confidence"
    /\ confidence_result' =
           calculate_enhanced_confidence_score(answer.transcript, audio_metadata)
    /\ pc' = "technical"
    /\ UNCHANGED <<hashseed, answer, question, audio_path, audio_metadata, clarity_result,
                   technical_result, structure_result, coverage_result, evaluation,
                   previous, direct_result, second, service, sessions, requests, responses>>

\* lines 43-49; question.must_have_concepts raises when question is None
TechnicalStep ==
    /\ pc = "technical"
    /\ IF question = None
       THEN Fallback /\ UNCHANGED technical_result
       ELSE /\ technical_result' =
                   calculate_enhanced_technical_score(answer.transcript, RubricOf(question))
            /\ pc' = "structure"
            /\ UNCHANGED evaluation
    /\ UNCHANGED <<hashseed, answer, question, audio_path, audio_metadata, clarity_result,
                   confidence_result, structure_result, coverage_result, previous,
                   direct_result, second, service, sessions, requests, responses>>

\* line 52
StructureStep ==
    /\ pc = "structure"
    /\ structure_result' = analyze_answer_structure(answer.transcript)
    /\ pc' = "coverage"
    /\ UNCHANGED <<hashseed, answer, question, audio_path, audio_metadata, clarity_result,
                   confidence_result, technical_result, coverage_result, evaluation,
                   previous, direct_result, second, service, sessions, requests, responses>>

\* lines 55-63
CoverageStep ==
    /\ pc = "coverage"
    /\ coverage_result' =
           analyze_concept_coverage(answer.transcript, question.ideal_answer,
                                    RubricOf(question), hashseed)
    /\ pc' = "aggregate"
    /\ UNCHANGED <<hashseed, answer, question, audio_path, audio_metadata, clarity_result,
                   confidence_result, technical_result, structure_result, evaluation,
                   previous, direct_result, second, service, sessions, requests, responses>>

\* lines 65-91
Aggregate ==
    /\ pc = "aggregate"
    /\ evaluation' =
           [ answer_id |-> answer.answer_id,
             clarity_score |-> clarity_result,
             confidence_score |-> confidence_result,
             technical_score |-> technical_result,
             structure_analysis |-> structure_result,
             coverage_analysis |-> coverage_result,
             overall_score10 |->
                 _calculate_overall_score(clarity_result.score, confidence_result.score,
                                          technical_result.score),
             suggestions |->
                 _generate_comprehensive_suggestions(clarity_result, confidence_result,
                     technical_result, structure_result, coverage_result) ]
    /\ pc' = "done"
    /\ UNCHANGED <<hashseed, answer, question, audio_path, audio_metadata, clarity_result,
                   confidence_result, technical_result, structure_result, coverage_result,
                   previous, direct_result, second, service, sessions, requests, responses>>

\* The caller evaluates the same answer once more in the same process
Reinvoke ==
    /\ pc = "done"
    /\ previous = None
    /\ previous' = evaluation
    /\ pc' = "ready"
    /\ audio_metadata' = None /\ clarity_result' = None /\ confidence_result' = None
    /\ technical_result' = None /\ structure_result' = None /\ coverage_result' = None
    /\ evaluation' = None
    /\ UNCHANGED <<hashseed, answer, question, audio_path, direct_result, second, service,
                   sessions, requests, responses>>

\* The service is restarted and the caller evaluates the same answer in the
\* new process, whose hash seed is another one
RestartProcess ==
    /\ pc = "done"
    /\ previous = None
    /\ \E seed \in 0..MaxSeed : seed # hashseed /\ hashseed' = seed
    /\ previous' = evaluation
    /\ pc' = "ready"
    /\ audio_metadata' = None /\ clarity_result' = None /\ confidence_result' = None
    /\ technical_result' = None /\ structure_result' = None /\ coverage_result' = None
    /\ evaluation' = None
    /\ UNCHANGED <<answer, question, audio_path, direct_result, second, service,
                   sessions, requests, responses>>

\* calculate_enhanced_technical_score called on its own, without a rubric
\* (question_rubric = None, the parameter's default)
ScoreWithoutRubric ==
    /\ pc = "ready"
    /\ previous = None
    /\ answer.transcript # NoneText
    /\ direct_result' = calculate_enhanced_technical_score(answer.transcript, None)
    /\ pc' = "direct"
    /\ UNCHANGED <<hashseed, answer, question, audio_path, audio_metadata, clarity_result,
                   confidence_result, technical_result, structure_result, coverage_result,
                   evaluation, previous, second, service, sessions, requests, responses>>

\* Audio feature bags as a caller of the confidence scorer may pass them:
\* speaking_rate and long_pauses are the keys the scorer reads
FeatureBags ==
    { [speaking_rate |-> 150, long_pauses |-> 0],
      [speaking_rate |-> 80, long_pauses |-> 5],
      [speaking_rate |-> 200, long_pauses |-> 2],
      [long_pauses |-> 4] }

\* calculate_enhanced_confidence_score called on its own with a feature bag
ScoreConfidenceWithFeatures ==
    /\ pc = "ready"
    /\ previous = None
    /\ answer.transcript # NoneText
    /\ \E bag \in FeatureBags :
           direct_result' = calculate_enhanced_confidence_score(answer.transcript, bag)
    /\ pc' = "direct_confidence"
    /\ UNCHANGED <<hashseed, answer, question, audio_path, audio_metadata, clarity_result,
                   confidence_result, technical_result, structure_result, coverage_result,
                   evaluation, previous, second, service, sessions, requests, responses>>

\* The frame of a call of evaluate_answer that has not begun: its arguments,
\* its position and its locals
NewCall(a, q, path) ==
    [ pc |-> "ready", answer |-> a, question |-> q, audio_path |-> path,
      audio_metadata |-> None, clarity_result |-> None, confidence_result |-> None,
      technical_result |-> None, structure_result |-> None, coverage_result |-> None,
      evaluation |-> None ]

\* The frame of call c after the next statement of evaluate_answer, in a
\* process with the given hash seed
StepOfCall(c, seed) ==
    CASE c.pc = "ready" ->
           IF c.audio_path # None
           THEN [c EXCEPT
                   !.audio_metadata = analyze_audio_features(c.audio_path),
                   !.answer = [c.answer EXCEPT
                       !.audio_duration =
                           Get(analyze_audio_features(c.audio_path), "duration", 0),
                       !.audio_metadata = analyze_audio_features(c.audio_path)],
                   !.pc = "clarity"]
           ELSE [c EXCEPT !.audio_metadata = <<>>, !.pc = "clarity"]
      [] c.pc = "clarity" ->
           IF c.answer.transcript = NoneText
           THEN [c EXCEPT !.evaluation = _create_fallback_evaluation(c.answer),
                          !.pc = "done"]
           ELSE [c EXCEPT
                   !.clarity_result = calculate_enhanced_clarity_score(c.answer.transcript),
                   !.pc = "confidence"]
      [] c.pc = "confidence" ->
           [c EXCEPT
              !.confidence_result =
                  calculate_enhanced_confidence_score(c.answer.transcript, c.audio_metadata),
              !.pc = "technical"]
      [] c.pc = "technical" ->
           IF c.question = None
           THEN [c EXCEPT !.evaluation = _create_fallback_evaluation(c.answer),
                          !.pc = "done"]
           ELSE [c EXCEPT
                   !.technical_result =
                       calculate_enhanced_technical_score(c.answer.transcript,
                                                          RubricOf(c.question)),
                   !.pc = "structure"]
      [] c.pc = "structure" ->
           [c EXCEPT !.structure_result = analyze_answer_structure(c.answer.transcript),
                     !.pc = "coverage"]
      [] c.pc = "coverage" ->
           [c EXCEPT
              !.coverage_result =
                  analyze_concept_coverage(c.answer.transcript, c.question.ideal_answer,
                                           RubricOf(c.question), seed),
              !.pc = "aggregate"]
      [] c.pc = "aggregate" ->
           [c EXCEPT
              !.evaluation =
                  [ answer_id |-> c.answer.answer_id,
                    clarity_score |-> c.clarity_result,
                    confidence_score |-> c.confidence_result,
                    technical_score |-> c.technical_result,
                    structure_analysis |-> c.structure_result,
                    coverage_analysis |-> c.coverage_result,
                    overall_score10 |->
                        _calculate_overall_score(c.clarity_result.score,
                            c.confidence_result.score, c.technical_result.score),
                    suggestions |->
                        _generate_comprehensive_suggestions(c.clarity_result,
                            c.confidence_result, c.technical_result,
                            c.structure_result, c.coverage_result) ],
              !.pc = "done"]

\* SecondCallStep with the reports kept where the first call keeps its own
SecondCallStepSharingReports ==
    /\ second # None
    /\ second.pc # "done"
    /\ second' = StepOfCall(second, hashseed)
    /\ clarity_result' =
           IF second'.clarity_result # None THEN second'.clarity_result ELSE clarity_result
    /\ UNCHANGED <<pc, hashseed, answer, question, audio_path, audio_metadata,
                   confidence_result, technical_result, structure_result,
                   coverage_result, evaluation, previous, direct_result, service,
                   sessions, requests, responses>>

\* The second call, on another thread, executes its next statement: it reads
\* and writes its own frame only
SecondCallStep ==
    /\ second # None
    /\ second.pc # "done"
    /\ second' = StepOfCall(second, hashseed)
    /\ UNCHANGED <<pc, hashseed, answer, question, audio_path, audio_metadata,
                   clarity_result, confidence_result, technical_result, structure_result,
                   coverage_result, evaluation, previous, direct_result, service,
                   sessions, requests, responses>>

Next ==
    \/ Begin
    \/ ClarityStep
    \/ ConfidenceStep
    \/ TechnicalStep
    \/ StructureStep
    \/ CoverageStep
    \/ Aggregate
    \/ Reinvoke
    \/ RestartProcess
    \/ ScoreWithoutRubric
    \/ ScoreConfidenceWithFeatures

(***************************************************************************)
(* app.py and DatabaseManager: sessions and evaluation requests            *)
(***************************************************************************)
SessionIds == 1..MaxSessions

Workers == 1..MaxWorkers

\* SessionRequest.total_questions as the clients send it
TotalQuestionsChoices == {1, 3}

\* A session id no row has: the ids of the rows are uuids made by
\* InterviewSession.__init__, a client may send any string
UnknownSession == 0

\* The interview_sessions table without a row
NoSessions == [s \in SessionIds \cup {UnknownSession} |-> None]

\* A worker between two requests, having handled n
IdleWorker(n) ==
    [pc |-> "idle", kind |-> "none", session_id |-> 0, session |-> None, served |-> n]

NoResponses == [s \in SessionIds \cup {UnknownSession} |-> [ok |-> 0, failed |-> 0]]

\* POST /api/session/create: InterviewSession(total_questions=...) with a
\* fresh uuid and completed_questions 0, inserted by DatabaseManager.create_session
create_session ==
    \E s \in SessionIds, total \in TotalQuestionsChoices :
        /\ sessions[s] = None
        /\ \A r \in SessionIds : r < s => sessions[r] # None
        /\ sessions' = [sessions EXCEPT
                            ![s] = [total_questions |-> total, completed_questions |-> 0]]
        /\ UNCHANGED <<requests, responses>>

\* A worker takes a request of POST /api/evaluate/text or POST /evaluate for
\* the id of a created session or for an id that names no row
ReceiveRequest(w) ==
    /\ requests[w].pc = "idle"
    /\ requests[w].served < MaxRequestsPerWorker
    /\ \E kind \in {"text", "audio"},
          s \in {r \in SessionIds : sessions[r] # None} \cup {UnknownSession} :
           requests' = [requests EXCEPT
                            ![w] = [@ EXCEPT !.pc = "evaluate", !.kind = kind,
                                             !.session_id = s]]
    /\ UNCHANGED <<sessions, responses>>

\* evaluate_text_answer lines 250-273: the question is looked up, the answer
\* stored, evaluated and the result stored; evaluate_answer does not raise
\* and the two create_ calls catch their own exceptions
EvaluateText(w) ==
    /\ requests[w].pc = "evaluate" /\ requests[w].kind = "text"
    /\ requests' = [requests EXCEPT ![w].pc = "get_session"]
    /\ UNCHANGED <<sessions, responses>>

\* evaluate_answer of app.py lines 146-181 and 204-208: a validation raises
\* HTTPException 400 or 500, and a request that passes them reaches
\* Answer(...) at line 177, a name app.py never imports at module level, so
\* NameError is raised and turned into HTTPException 500.  No audio request
\* reaches the session update of lines 194-199.
EvaluateAudio(w) ==
    /\ requests[w].pc = "evaluate" /\ requests[w].kind = "audio"
    /\ requests' = [requests EXCEPT ![w] = IdleWorker(@.served + 1)]
    /\ responses' = [responses EXCEPT ![requests[w].session_id].failed = @ + 1]
    /\ UNCHANGED sessions

\* db_manager.get_session(session_id), one transaction: a fresh
\* InterviewSession built from the row, or None without a row
GetSession(w) ==
    /\ requests[w].pc = "get_session"
    /\ requests' = [requests EXCEPT
                        ![w] = [@ EXCEPT
                                  !.session = sessions[requests[w].session_id],
                                  !.pc = IF sessions[requests[w].session_id] # None
                                         THEN "update_session" ELSE "respond"]]
    /\ UNCHANGED <<sessions, responses>>

\* session.completed_questions += 1 on the worker's own object, then
\* db_manager.update_session(session), one transaction that writes
\* total_questions and completed_questions of the object into the row
UpdateSession(w) ==
    /\ requests[w].pc = "update_session"
    /\ sessions' = [sessions EXCEPT
                        ![requests[w].session_id] =
                            IF @ = None THEN @
                            ELSE [total_questions |-> requests[w].session.total_questions,
                                  completed_questions |->
                                      requests[w].session.completed_questions + 1]]
    /\ requests' = [requests EXCEPT ![w].pc = "respond"]
    /\ UNCHANGED responses

\* return JSONResponse(content=evaluation.to_dict())
Respond(w) ==
    /\ requests[w].pc = "respond"
    /\ responses' = [responses EXCEPT ![requests[w].session_id].ok = @ + 1]
    /\ requests' = [requests EXCEPT ![w] = IdleWorker(@.served + 1)]
    /\ UNCHANGED sessions

\* The variables of the evaluate_answer call that the requests leave alone
EvaluationVars ==
    <<pc, hashseed, answer, question, audio_path, audio_metadata, clarity_result,
      confidence_result, technical_result, structure_result, coverage_result,
      evaluation, previous, direct_result, second, service>>

(***************************************************************************)
(* Inputs                                                                  *)
(***************************************************************************)
\* The texts made of at most n chunks of a vocabulary
Texts(chunks, n) ==
    { Flatten(cs) : cs \in UNION { [1..k -> chunks] : k \in 0..n } }

\* The audio files: a well paced one, a slow one with long pauses (a pause
\* counts as long from 512 s of silence on, _analyze_pauses dividing frames
\* by the sample rate), and one that cannot be loaded
AudioFiles ==
    { [readable |-> TRUE, duration |-> 30, speaking_rate |-> 150,
       total_pauses |-> 2, long_pauses |-> 0],
      [readable |-> TRUE, duration |-> 3600, speaking_rate |-> 80,
       total_pauses |-> 8, long_pauses |-> 5],
      [readable |-> FALSE, duration |-> 0, speaking_rate |-> 0,
       total_pauses |-> 0, long_pauses |-> 0] }

QuestionHashFunction ==
    [ id |-> 1,
      must_have_concepts |-> << <<"hash", "function">>, <<"collision">> >>,
      good_to_have_concepts |-> << <<"Bucket">> >>,
      red_flags |-> << <<"slow">> >>,
      ideal_answer |-> <<"hash", "function", "maps", "key", "to", "bucket", ".">> ]

QuestionManyConcepts ==
    [ id |-> 2,
      must_have_concepts |-> << <<"hash">>, <<"collision">>, <<"bucket">>, <<"key">>,
                                <<"value">>, <<"array">> >>,
      good_to_have_concepts |-> << <<"chaining">> >>,
      red_flags |-> <<>>,
      ideal_answer |-> NoneText ]

QuestionNoRubric ==
    [ id |-> 3,
      must_have_concepts |-> <<>>,
      good_to_have_concepts |-> <<>>,
      red_flags |-> <<>>,
      ideal_answer |-> NoneText ]

\* An ideal answer without a word in it
QuestionDotIdeal ==
    [ id |-> 4,
      must_have_concepts |-> <<>>,
      good_to_have_concepts |-> <<>>,
      red_flags |-> <<>>,
      ideal_answer |-> <<".">> ]

MainChunks ==
    { Repeat("um", 9),
      <<"maybe", "maybe", "maybe", "maybe", "maybe", "maybe", "is", "was", "are", "by">>,
      <<"hash", "function", "works", ".">>,
      <<"definitely", "because", "collision", ".">>,
      <<"first", "like", "bucket", "finally", ".">>,
      <<"hash", "collision", "bucket", "key", "value", "array">>,
      <<"slow">> }

\* The state in which a caller holds an answer, a question and an audio file
\* and has not called yet
InitWith(transcripts, questions, audios) ==
    /\ pc = "ready"
    /\ hashseed = 0
    /\ answer \in { [answer_id |-> "a1", transcript |-> t,
                     audio_duration |-> NoDuration, audio_metadata |-> <<>>] :
                    t \in transcripts }
    /\ question \in questions
    /\ audio_path \in audios
    /\ audio_metadata = None /\ clarity_result = None /\ confidence_result = None
    /\ technical_result = None /\ structure_result = None /\ coverage_result = None
    /\ evaluation = None /\ previous = None /\ direct_result = None
    /\ second = None
    /\ service = ConstructedService
    /\ sessions = NoSessions
    /\ requests = [w \in Workers |-> IdleWorker(0)]
    /\ responses = NoResponses

Init ==
    InitWith(Texts(MainChunks, MaxChunks) \cup {NoneText},
             {QuestionHashFunction, QuestionManyConcepts, QuestionNoRubric, None},
             AudioFiles \cup {None})

Spec == Init /\ [][Next]_vars

CoverageChunks == { <<"hash", "function">>, <<"key">>, <<"collision">>, <<".">> }

InitCoverage ==
    InitWith(Texts(CoverageChunks, MaxCoverageChunks),
             {QuestionHashFunction, QuestionNoRubric, QuestionDotIdeal},
             {None})

SpecCoverage == InitCoverage /\ [][Next]_vars

StructureChunks ==
    { <<"first", "because">>, <<"like">>, <<"finally">>, <<"the", "mechanism", "is">> }

InitStructure ==
    InitWith(Texts(StructureChunks, MaxStructureChunks), {QuestionNoRubric}, {None})

SpecStructure == InitStructure /\ [][Next]_vars

\* The callers whose calls are followed to their end
InitFair ==
    InitWith(Texts({c \in MainChunks : Len(c) <= MaxChunkLenFair}, MaxChunksFair)
                 \cup {NoneText},
             {QuestionHashFunction, QuestionManyConcepts, QuestionNoRubric, None},
             {a \in AudioFiles : a.long_pauses > 0} \cup {None})

\* A call that has begun keeps executing: evaluate_answer is synchronous code
\* without a wait in it
SpecFair == InitFair /\ [][Next]_vars /\ WF_vars(Next)

\* Transcripts for the clarity scorer: five "um", five "uh", a sentence of 3
\* words, one of 8 words with a connective, one of 26 words
ClarityChunks ==
    { Repeat("um", 5),
      Repeat("uh", 5),
      <<"hash", "function", "works", ".">>,
      <<"a", "map", "uses", "hash", "because", "it", "works", "fast", ".">>,
      Repeat("key", 26) \o <<".">> }

InitClarity ==
    InitWith(Texts(ClarityChunks, MaxClarityChunks), {QuestionNoRubric}, {None})

SpecClarity == InitClarity /\ [][Next]_vars

\* Transcripts for the suggestions: many fillers, three connectives,
\* hesitation with passive words, and two plain sentences
SuggestionChunks ==
    { Repeat("um", 9),
      <<"first", "then", "finally">>,
      <<"maybe", "maybe", "maybe", "maybe", "maybe", "maybe", "is", "was", "are", "by">>,
      <<"hash", "function", "works", ".">>,
      <<"definitely", "because", "collision", ".">> }

InitSuggestions ==
    InitWith(Texts(SuggestionChunks, MaxSuggestionChunks),
             {QuestionHashFunction, QuestionNoRubric}, {None})

SpecSuggestions == InitSuggestions /\ [][Next]_vars

\* Transcripts for the confidence scorer: three hesitation markers, a passive
\* word among three, three plain words, a confident word, and a marker the
\* table spells with a capital
ConfidenceChunks ==
    { <<"maybe", "maybe", "maybe">>,
      <<"it", "is", "fast">>,
      <<"hash", "maps", "key">>,
      <<"definitely">>,
      <<"I", "think">> }

InitConfidence ==
    InitWith(Texts(ConfidenceChunks, MaxConfidenceChunks), {QuestionNoRubric},
             AudioFiles \cup {None})

SpecConfidence == InitConfidence /\ [][Next]_vars

\* Transcripts that hold from none to all seven concepts of
\* QuestionManyConcepts
QualityChunks ==
    { <<"hash", "collision", "bucket">>,
      <<"key", "value", "array">>,
      <<"hash", "collision">>,
      <<"chaining">>,
      <<"hash">> }

InitQuality ==
    InitWith(Texts(QualityChunks, MaxQualityChunks), {QuestionManyConcepts, None}, {None})

SpecQuality == InitQuality /\ [][Next]_vars

\* The server with its worker processes and an empty interview_sessions
\* table; no evaluate_answer call of the evaluation model is followed
InitSessions ==
    /\ InitWith({<<>>}, {None}, {None})

\* Session creations and the statements of the requests of all workers,
\* interleaved in every way
NextSessions ==
    \/ create_session /\ UNCHANGED EvaluationVars
    \/ \E w \in Workers : ReceiveRequest(w) /\ UNCHANGED EvaluationVars
    \/ \E w \in Workers : EvaluateText(w) /\ UNCHANGED EvaluationVars
    \/ \E w \in Workers : EvaluateAudio(w) /\ UNCHANGED EvaluationVars
    \/ \E w \in Workers : GetSession(w) /\ UNCHANGED EvaluationVars
    \/ \E w \in Workers : UpdateSession(w) /\ UNCHANGED EvaluationVars
    \/ \E w \in Workers : Respond(w) /\ UNCHANGED EvaluationVars

SpecSessions == InitSessions /\ [][NextSessions]_vars

\* The transcripts of the two callers of the concurrent calls
ConcurrentTexts ==
    Texts({c \in MainChunks : Len(c) <= MaxChunkLenFair}, MaxChunksFair) \cup {NoneText}

\* Two callers on two threads of one process, each with an answer of its own
InitConcurrent ==
    /\ pc = "ready"
    /\ hashseed = 0
    /\ answer \in { [answer_id |-> "a1", transcript |-> t,
                     audio_duration |-> NoDuration, audio_metadata |-> <<>>] :
                    t \in ConcurrentTexts }
    /\ question \in {QuestionHashFunction, None}
    /\ audio_path \in {a \in AudioFiles : a.long_pauses > 0} \cup {None}
    /\ audio_metadata = None /\ clarity_result = None /\ confidence_result = None
    /\ technical_result = None /\ structure_result = None /\ coverage_result = None
    /\ evaluation = None /\ previous = None /\ direct_result = None
    /\ second \in { NewCall([answer_id |-> "a2", transcript |-> t,
                             audio_duration |-> NoDuration, audio_metadata |-> <<>>],
                            q, path) :
                    t \in ConcurrentTexts, q \in {QuestionHashFunction, None},
                    path \in {a \in AudioFiles : a.long_pauses = 0 /\ a.readable} \cup {None} }
    /\ service = ConstructedService
    /\ sessions = NoSessions
    /\ requests = [w \in Workers |-> IdleWorker(0)]
    /\ responses = NoResponses

\* The statements of the two calls, interleaved in every way
NextConcurrent ==
    \/ Begin
    \/ ClarityStep
    \/ ConfidenceStep
    \/ TechnicalStep
    \/ StructureStep
    \/ CoverageStep
    \/ Aggregate
    \/ SecondCallStep

SpecConcurrent == InitConcurrent /\ [][NextConcurrent]_vars

(***************************************************************************)
(* Properties of evaluate_answer                                           *)
(***************************************************************************)
\* An analyzer raises in evaluate_answer exactly when the transcript is None
\* (the clarity scorer lowers it) or the question is None (its rubric is read)
AnalyzerRaises == answer.transcript = NoneText \/ question = None

ResultFields ==
    {"answer_id", "clarity_score", "confidence_score", "technical_score",
     "structure_analysis", "coverage_analysis", "overall_score10", "suggestions"}

FailedDimension(d) ==
    d.score = 5 /\ Len(d.issues) = 1 /\ d.evidence = <<>> /\ d.strengths = <<>>

\* What evaluate_answer has returned when it is done: a result, and the fixed
\* fallback without any computed report if an analyzer raised
C1_ReturnsResult ==
    pc = "done" =>
         /\ evaluation # None
         /\ DOMAIN evaluation = ResultFields
         /\ evaluation.answer_id = answer.answer_id
         /\ AnalyzerRaises =>
              /\ FailedDimension(evaluation.clarity_score)
              /\ FailedDimension(evaluation.confidence_score)
              /\ FailedDimension(evaluation.technical_score)
              /\ evaluation.overall_score10 = 50
              /\ Len(evaluation.suggestions) = 1
              /\ evaluation.clarity_score # clarity_result
              /\ evaluation.confidence_score # confidence_result
              /\ "structure_detected" \notin DOMAIN evaluation.structure_analysis
              /\ "covered_concepts" \notin DOMAIN evaluation.coverage_analysis

\* C1: evaluate_answer is total: from every answer, question (None included)
\* and audio path the call goes on until it returns an EvaluationResult; when
\* an analyzer raises, the result is exactly the fixed fallback (clarity,
\* confidence and technical score 5 with one diagnostic issue each, overall
\* score 5.0, one generic suggestion) and holds none of the reports computed
\* before the fault.
C1_TotalWithFixedFallback ==
    /\ []C1_ReturnsResult
    /\ (pc \in {"clarity", "confidence", "technical", "structure", "coverage",
                "aggregate"}) ~> (pc = "done")

\* The question is None and the fault comes after the clarity and the
\* confidence report of a non-empty transcript have been computed
C1_Witness ==
    /\ pc = "done" /\ question = None /\ answer.transcript # <<>>
    /\ clarity_result # None /\ confidence_result # None
    /\ evaluation.overall_score10 = 50

\* C2: the score of the clarity, the confidence and the technical report lies
\* in [0,10] and the structure score in [0,10] (0..100 tenths), for the
\* reports of the analyzers, with a rubric and in the keyword mode of the
\* technical scorer, and for the reports of every returned result, the
\* fallback included.
C2_ScoresInRange ==
    /\ clarity_result # None => clarity_result.score \in 0..10
    /\ confidence_result # None => confidence_result.score \in 0..10
    /\ technical_result # None => technical_result.score \in 0..10
    /\ direct_result # None => direct_result.score \in 0..10
    /\ structure_result # None => structure_result.structure_score10 \in 0..100
    /\ evaluation # None =>
         /\ evaluation.clarity_score.score \in 0..10
         /\ evaluation.confidence_score.score \in 0..10
         /\ evaluation.technical_score.score \in 0..10
         /\ evaluation.structure_analysis.structure_score10 \in 0..100

\* Six must-have concepts are present, 12 points before the clamp
C2_Witness ==
    /\ pc = "done" /\ ~AnalyzerRaises
    /\ Len(technical_result.covered_concepts) >= 6
    /\ technical_result.score = 10

\* C3: in every result that is not the fallback, overall_score is
\* 0.4 technical + 0.3 clarity + 0.3 confidence rounded to one decimal, the
\* three scores being those of the reports the result holds, which are the
\* ones the scorers returned; so overall_score lies in [0,10].  The scores are
\* integers, so in tenths the weighted sum is a whole number.
C3_OverallIsWeightedSum ==
    (pc = "done" /\ ~AnalyzerRaises) =>
        /\ evaluation.technical_score = technical_result
        /\ evaluation.clarity_score = clarity_result
        /\ evaluation.confidence_score = confidence_result
        /\ evaluation.overall_score10 =
               4 * evaluation.technical_score.score
               + 3 * evaluation.clarity_score.score
               + 3 * evaluation.confidence_score.score
        /\ evaluation.overall_score10 \in 0..100

\* The technical and the clarity score differ and the overall score is no
\* whole number
C3_Witness ==
    /\ pc = "done" /\ ~AnalyzerRaises
    /\ evaluation.technical_score.score # evaluation.clarity_score.score
    /\ evaluation.overall_score10 % 10 # 0

\* C4: the suggestions of every returned result are at most 5 and no entry
\* occurs twice.
C4_SuggestionsLimitedAndUnique ==
    (pc = "done") =>
        /\ Len(evaluation.suggestions) <= 5
        /\ \A i, j \in 1..Len(evaluation.suggestions) :
               i # j => evaluation.suggestions[i] # evaluation.suggestions[j]

\* The technical scorer and the coverage analyzer both contribute "Focus on
\* covering the fundamental concepts first", and the list is cut to 5
C4_Witness ==
    /\ pc = "done" /\ ~AnalyzerRaises
    /\ technical_result.score < 6 /\ technical_result.coverage_percentage10 < 500
    /\ Msg("Focus on covering the fundamental concepts first")
           \in Range(coverage_result.suggestions)
    /\ Len(evaluation.suggestions) = 5

(***************************************************************************)
(* Properties of the coverage analyzer                                     *)
(***************************************************************************)
\* The expected set of the call: the rubric's must-have and good-to-have
\* concepts and the concepts of the ideal answer
ExpectedConcepts ==
    Range(question.must_have_concepts) \cup Range(question.good_to_have_concepts)
    \cup (IF IsTruthyText(question.ideal_answer)
          THEN _extract_concepts(LowerText(question.ideal_answer)) ELSE {})

TranscriptConcepts == _extract_concepts(LowerText(answer.transcript))

NumCovered == Cardinality(TranscriptConcepts \cap ExpectedConcepts)

Abs(n) == IF n < 0 THEN -n ELSE n

\* C5 as stated: coverage_percentage is exactly covered / expected x 100 when
\* the expected set is not empty, 0 when it is, and lies in [0,100].
C5_ExactPercentage ==
    coverage_result # None =>
        /\ ExpectedConcepts # {} =>
               coverage_result.coverage_percentage10 * Cardinality(ExpectedConcepts)
                   = 1000 * NumCovered
        /\ ExpectedConcepts = {} => coverage_result.coverage_percentage10 = 0
        /\ coverage_result.coverage_percentage10 \in 0..1000

\* C5: coverage_percentage is covered / expected x 100 rounded to one decimal
\* (it differs from the quotient by at most 0.05) when the expected set is not
\* empty, 0 for every transcript when it is empty, and lies in [0,100].
C5_RoundedPercentage ==
    coverage_result # None =>
        /\ ExpectedConcepts # {} =>
               2 * Abs(coverage_result.coverage_percentage10 * Cardinality(ExpectedConcepts)
                       - 1000 * NumCovered) <= Cardinality(ExpectedConcepts)
        /\ ExpectedConcepts = {} => coverage_result.coverage_percentage10 = 0
        /\ coverage_result.coverage_percentage10 \in 0..1000
        /\ coverage_result.total_expected = Cardinality(ExpectedConcepts)
        /\ coverage_result.total_covered = NumCovered

\* Some but not all expected concepts are covered and the quotient has more
\* than one decimal
C5_Witness ==
    /\ coverage_result # None
    /\ NumCovered > 0
    /\ (1000 * NumCovered) % Cardinality(ExpectedConcepts) # 0

\* C6: the Jaccard similarity of the comparison with the ideal answer is
\* symmetric: comparing the ideal answer against the transcript gives the
\* jaccard_similarity and the similarity_rating that comparing the transcript
\* against the ideal answer gave; it is 0 when both texts have no concepts
\* and lies in [0,1].
C6_JaccardSymmetric ==
    (coverage_result # None /\ coverage_result.ideal_comparison # None) =>
        /\ coverage_result.ideal_comparison.jaccard_similarity1000 =
               _compare_with_ideal(LowerText(question.ideal_answer),
                                   LowerText(answer.transcript)).jaccard_similarity1000
        /\ coverage_result.ideal_comparison.similarity_rating =
               _compare_with_ideal(LowerText(question.ideal_answer),
                                   LowerText(answer.transcript)).similarity_rating
        /\ coverage_result.ideal_comparison.jaccard_similarity1000 \in 0..1000
        /\ (TranscriptConcepts = {}
            /\ _extract_concepts(LowerText(question.ideal_answer)) = {})
               => coverage_result.ideal_comparison.jaccard_similarity1000 = 0

\* The two texts share concepts and each has concepts of its own
C6_Witness ==
    /\ coverage_result # None /\ coverage_result.ideal_comparison # None
    /\ coverage_result.ideal_comparison.jaccard_similarity1000 \in 1..999
    /\ TranscriptConcepts \ _extract_concepts(LowerText(question.ideal_answer)) # {}
    /\ _extract_concepts(LowerText(question.ideal_answer)) \ TranscriptConcepts # {}

\* The second of two calls with the same answer, question and audio file has
\* returned
SecondCallDone == pc = "done" /\ previous # None /\ ~AnalyzerRaises

\* C8: every analyzer is deterministic and stateless: called twice with the
\* same inputs, in the same or in another process, it returns the same
\* report, the order of every list in it included.
C8_AnalyzersDeterministic ==
    SecondCallDone =>
        /\ evaluation.clarity_score = previous.clarity_score
        /\ evaluation.confidence_score = previous.confidence_score
        /\ evaluation.technical_score = previous.technical_score
        /\ evaluation.structure_analysis = previous.structure_analysis
        /\ evaluation.coverage_analysis = previous.coverage_analysis

\* What holds of the two calls: the reports agree but for the order of the
\* concept lists of the coverage report and the concepts its "Consider
\* including" suggestion names, and they agree in that too when both calls
\* ran in one process
C8_SameUpToListOrder ==
    SecondCallDone =>
        /\ evaluation.clarity_score = previous.clarity_score
        /\ evaluation.confidence_score = previous.confidence_score
        /\ evaluation.technical_score = previous.technical_score
        /\ evaluation.structure_analysis = previous.structure_analysis
        /\ \A f \in {"covered_concepts", "missing_concepts", "additional_concepts"} :
               Range(evaluation.coverage_analysis[f]) = Range(previous.coverage_analysis[f])
        /\ \A f \in {"coverage_percentage10", "total_expected", "total_covered",
                      "coverage_quality", "ideal_comparison"} :
               evaluation.coverage_analysis[f] = previous.coverage_analysis[f]
        /\ Len(evaluation.coverage_analysis.suggestions)
               = Len(previous.coverage_analysis.suggestions)
        /\ hashseed = 0 => evaluation.coverage_analysis = previous.coverage_analysis

(***************************************************************************)
(* Properties of the structure analyzer                                    *)
(***************************************************************************)
NumDetected ==
    Cardinality({c \in Range(Components) : structure_result.structure_detected[c]})

\* The recorded positions follow introduction, explanation, example, conclusion
InCanonicalOrder ==
    /\ structure_result.structure_positions["introduction"]
           < structure_result.structure_positions["explanation"]
    /\ structure_result.structure_positions["explanation"]
           < structure_result.structure_positions["example"]
    /\ structure_result.structure_positions["example"]
           < structure_result.structure_positions["conclusion"]

\* C7: logical_flow is "no_structure" iff no component is detected,
\* "minimal_structure", "basic_structure", "good_structure" for exactly 1, 2,
\* 3 detected components, "excellent_structure" iff all four are detected and
\* their recorded positions are in the order introduction, explanation,
\* example, conclusion, and "disorganized_structure" iff all four are detected
\* and their positions are not in that order.
C7_LogicalFlowLabel ==
    structure_result # None =>
        /\ \A c \in Range(Components) :
               structure_result.structure_detected[c]
                   <=> structure_result.structure_positions[c] >= 0
        /\ structure_result.logical_flow = "no_structure" <=> NumDetected = 0
        /\ structure_result.logical_flow = "minimal_structure" <=> NumDetected = 1
        /\ structure_result.logical_flow = "basic_structure" <=> NumDetected = 2
        /\ structure_result.logical_flow = "good_structure" <=> NumDetected = 3
        /\ structure_result.logical_flow = "excellent_structure"
               <=> (NumDetected = 4 /\ InCanonicalOrder)
        /\ structure_result.logical_flow = "disorganized_structure"
               <=> (NumDetected = 4 /\ ~InCanonicalOrder)

\* All four components are detected, two of them at the same position
C7_Witness ==
    /\ structure_result # None
    /\ NumDetected = 4
    /\ structure_result.structure_positions["introduction"]
           = structure_result.structure_positions["explanation"]
    /\ structure_result.logical_flow = "disorganized_structure"

\* The tokens at which a trigger phrase of the component starts
TriggerStarts(component) ==
    UNION { PatternStarts(LowerText(answer.transcript), structure_patterns(component)[k]) :
              k \in 1..Len(structure_patterns(component)) }

\* <<start, end>> of the fixed trigger phrases of the component in the text
LiteralTriggers(component) ==
    { o \in (1..Len(answer.transcript)) \X (1..Len(answer.transcript)) :
        \E k \in 1..Len(structure_patterns(component)) :
            \E p \in structure_patterns(component)[k].literal :
                /\ o[2] = o[1] + Len(p) - 1
                /\ MatchAt(LowerText(answer.transcript), p, o[1]) }

\* The text contains, from left to right, a trigger phrase of the
\* introduction, one of the explanation, one of the example and one of the
\* conclusion
ContainsTriggersInOrder ==
    \E a \in LiteralTriggers("introduction"), b \in LiteralTriggers("explanation"),
       c \in LiteralTriggers("example"), d \in LiteralTriggers("conclusion") :
        a[2] < b[1] /\ b[2] < c[1] /\ c[2] < d[1]

\* C9 as stated: a transcript that contains, in left-to-right order, one
\* trigger phrase each of the introduction, explanation, example and
\* conclusion has structure_score 10.0 and logical_flow "excellent_structure".
C9_TriggersInOrderExcellent ==
    (structure_result # None /\ ContainsTriggersInOrder) =>
        /\ structure_result.structure_score10 = 100
        /\ structure_result.logical_flow = "excellent_structure"

\* Each component has one trigger phrase in the text and no other, and the
\* four stand in the order introduction, explanation, example, conclusion
ContainsOnlyTriggersInOrder ==
    /\ \A c \in Range(Components) : Cardinality(TriggerStarts(c)) = 1
    /\ \E a \in TriggerStarts("introduction"), b \in TriggerStarts("explanation"),
          c \in TriggerStarts("example"), d \in TriggerStarts("conclusion") :
           a < b /\ b < c /\ c < d

\* C9: a transcript that contains exactly one trigger phrase each of the
\* introduction, explanation, example and conclusion, the four in
\* left-to-right order, has structure_score 10.0 and logical_flow
\* "excellent_structure".
C9_OnlyTriggersInOrderExcellent ==
    (structure_result # None /\ ContainsOnlyTriggersInOrder) =>
        /\ structure_result.structure_score10 = 100
        /\ structure_result.logical_flow = "excellent_structure"

\* first because like finally, each once
C9_Witness ==
    /\ structure_result # None /\ ContainsOnlyTriggersInOrder
    /\ structure_result.structure_score10 = 100

(***************************************************************************)
(* Properties of the technical scorer                                      *)
(***************************************************************************)
\* The indices of the concepts that are a substring of the transcript, case
\* ignored
PresentIn(concepts) ==
    { k \in 1..Len(concepts) :
        Contains(LowerText(answer.transcript), LowerText(concepts[k])) }

ClampTo(n, lo, hi) == IF n < lo THEN lo ELSE IF n > hi THEN hi ELSE n

\* C10: with a rubric the technical score is
\* clamp(2 x must-have present + good-to-have present - 2 x red flags present, 0, 10),
\* a concept being present when it is a substring of the transcript, case
\* ignored, and missing_concepts is the list of the must-have concepts that are
\* not present; so with every must-have present and no red flag,
\* missing_concepts is empty and the score at least min(10, 2 x must-haves).
C10_RubricScore ==
    technical_result # None =>
        /\ technical_result.score =
               ClampTo(2 * Cardinality(PresentIn(question.must_have_concepts))
                       + Cardinality(PresentIn(question.good_to_have_concepts))
                       - 2 * Cardinality(PresentIn(question.red_flags)), 0, 10)
        /\ technical_result.missing_concepts =
               SelectSeq(question.must_have_concepts,
                         LAMBDA c : ~Contains(LowerText(answer.transcript), LowerText(c)))
        /\ (/\ Cardinality(PresentIn(question.must_have_concepts))
                   = Len(question.must_have_concepts)
            /\ PresentIn(question.red_flags) = {})
               => /\ technical_result.missing_concepts = <<>>
                  /\ technical_result.score
                         >= Min(10, 2 * Len(question.must_have_concepts))

\* A good-to-have concept spelled with a capital is present, a red flag too,
\* and so is one of two must-haves
C10_Witness ==
    /\ technical_result # None
    /\ PresentIn(question.good_to_have_concepts) # {}
    /\ PresentIn(question.red_flags) # {}
    /\ Len(technical_result.missing_concepts) = 1
    /\ question.good_to_have_concepts[1] # LowerText(question.good_to_have_concepts[1])

(***************************************************************************)
(* Properties of the clarity scorer                                        *)
(***************************************************************************)
\* The three deductions of the clarity score, read off the transcript and
\* the weighted filler count the report gives
FillerOutcome ==
    IF clarity_result.filler_count10 > 80 THEN 4
    ELSE IF clarity_result.filler_count10 > 40 THEN 2 ELSE 0

SentenceOutcome ==
    LET n == Cardinality(SentenceRuns(answer.transcript))
        words == WordCount(answer.transcript)
    IN  IF n < 3 THEN 2
        ELSE IF words > 25 * n THEN 1
        ELSE IF words < 8 * n THEN 1
        ELSE 0

ConnectiveOccurs ==
    \E k \in 1..Len(flow_words) : Contains(LowerText(answer.transcript), flow_words[k])

\* The occurrences of a word in the transcript
Occurrences(w) ==
    Cardinality({i \in 1..Len(answer.transcript) : Lower(answer.transcript[i]) = w})

\* C11: the clarity score is 10 minus one filler outcome (4 with the issue
\* "Excessive filler words detected" above 8, 2 above 4, else 0 with a
\* strength), minus one sentence outcome (2 below 3 sentences, else 1 for a
\* mean length above 25 words, else 1 for one below 8, else 0 with a
\* strength), minus 2 when no connective occurs; a transcript with five "um"
\* and five "uh" scores at most 6 and reports the excessive-filler issue.
C11_ClarityScore ==
    clarity_result # None =>
        /\ clarity_result.score =
               10 - FillerOutcome - SentenceOutcome - (IF ConnectiveOccurs THEN 0 ELSE 2)
        /\ "Excessive filler words detected" \in Range(clarity_result.issues)
               <=> FillerOutcome = 4
        /\ "Minimal use of filler words" \in Range(clarity_result.strengths)
               <=> FillerOutcome = 0
        /\ "Good sentence structure and length" \in Range(clarity_result.strengths)
               <=> SentenceOutcome = 0
        /\ (Occurrences("um") = 5 /\ Occurrences("uh") = 5) =>
               /\ clarity_result.filler_count10 >= 100
               /\ clarity_result.score <= 6
               /\ "Excessive filler words detected" \in Range(clarity_result.issues)

\* Five "um" and five "uh" in one sentence that holds a connective:
\* 10 - 4 - 2 - 0
C11_Witness ==
    /\ clarity_result # None
    /\ Occurrences("um") = 5 /\ Occurrences("uh") = 5
    /\ Cardinality(SentenceRuns(answer.transcript)) = 1
    /\ ConnectiveOccurs
    /\ clarity_result.score = 4

(***************************************************************************)
(* Frame of evaluate_answer                                                *)
(***************************************************************************)
\* C12: evaluate_answer is side-effect-free on its inputs: no step of the call,
\* with or without an audio path, on the way to a genuine result or to the
\* fallback, changes a field of the Answer or of the Question it was given.
C12_InputsUnchanged == [][answer' = answer /\ question' = question]_vars

\* What holds: the question is never written, and the answer is written only
\* by the first step of a call that has an audio path, in audio_duration and
\* audio_metadata
C12_OnlyAudioFieldsWritten ==
    [][/\ question' = question
       /\ answer' # answer => (pc = "ready" /\ audio_path # None)
       /\ \A f \in DOMAIN answer \ {"audio_duration", "audio_metadata"} :
              answer'[f] = answer[f]]_vars

(***************************************************************************)
(* Properties of the call without a question                               *)
(***************************************************************************)
\* The static technical keywords that occur in the transcript
KeywordsOccurring ==
    { k \in 1..Len(technical_keywords) :
        Contains(LowerText(answer.transcript), technical_keywords[k]) }

\* The keyword mode of the technical scorer: min(10, keywords occurring),
\* with a strength from 7 and from 4 on and an issue below
KeywordModeReport(report) ==
    /\ report.score = Min(10, Cardinality(KeywordsOccurring))
    /\ report.score >= 7 => report.strengths = <<"Strong technical vocabulary">>
    /\ (report.score >= 4 /\ report.score < 7)
           => report.strengths = <<"Adequate technical knowledge">>
    /\ report.score >= 4 => report.issues = <<>>
    /\ report.score < 4 =>
           (report.strengths = <<>> /\ report.issues = <<"Limited technical terminology">>)

\* C13: the rubric is optional: when evaluate_answer is called without a
\* question, the technical report of the result is the one of the keyword mode
\* (score min(10, static technical keywords occurring), buckets at 7 and 4),
\* and the clarity, confidence, structure and coverage reports are the
\* computed ones, not those of the failure fallback.
C13_NoQuestionKeywordMode ==
    (pc = "done" /\ question = None /\ answer.transcript # NoneText) =>
        /\ KeywordModeReport(evaluation.technical_score)
        /\ evaluation.clarity_score = clarity_result
        /\ evaluation.confidence_score = confidence_result
        /\ "structure_detected" \in DOMAIN evaluation.structure_analysis
        /\ "covered_concepts" \in DOMAIN evaluation.coverage_analysis

\* What holds: the technical scorer called on its own without a rubric
\* reports in the keyword mode, and a call of evaluate_answer without a
\* question returns the failure fallback
C13_KeywordModeOnlyDirect ==
    /\ pc = "direct" => KeywordModeReport(direct_result)
    /\ (pc = "done" /\ question = None) =>
           evaluation = _create_fallback_evaluation(answer)

(***************************************************************************)
(* Properties of concurrent calls                                          *)
(***************************************************************************)
\* The frame in which evaluate_answer returns when call c runs on its own
RECURSIVE RunAlone(_, _)
RunAlone(c, seed) ==
    IF c.pc = "done" THEN c
    ELSE CHOOSE r \in { RunAlone(n, seed) : n \in {StepOfCall(c, seed)} } : TRUE

\* Each of the two calls that has returned holds the result of the call run
\* alone, and the tables of the service are those its constructor made
ResultsAsAlone ==
    /\ pc = "done" =>
           evaluation = RunAlone(NewCall(answer, question, audio_path), hashseed).evaluation
    /\ (second # None /\ second.pc = "done") =>
           second.evaluation =
               RunAlone(NewCall(second.answer, second.question, second.audio_path),
                        hashseed).evaluation
    /\ service = ConstructedService

\* C14: calls are independent under concurrency: in every interleaving of the
\* statements of two evaluate_answer calls on distinct answers that share one
\* service, each call returns the result it returns when run alone, and no
\* statement of a call writes a table or other field of the shared scorer and
\* analyzer objects.
C14_CallsIndependent ==
    /\ []ResultsAsAlone
    /\ [][service' = service]_vars

\* The first call has returned a genuine result while the second, on another
\* transcript, is between two of its statements with a clarity report of its
\* own
C14_Witness ==
    /\ pc = "done" /\ ~AnalyzerRaises
    /\ second # None /\ second.pc = "coverage"
    /\ second.answer.answer_id # answer.answer_id
    /\ second.clarity_result # clarity_result

(***************************************************************************)
(* Properties of the suggestions                                           *)
(***************************************************************************)
\* The remediation phrases of a dimension: none unless its score is below 6,
\* else one per sub-metric beyond its threshold
ClarityRemediation ==
    IF clarity_result.score < 6
    THEN (IF clarity_result.filler_count10 > 50
          THEN <<Msg("Practice reducing filler words like 'um', 'uh', 'like'")>> ELSE <<>>)
         \o (IF clarity_result.sentence_count < 3
             THEN <<Msg("Structure your answer with more complete sentences")>> ELSE <<>>)
    ELSE <<>>

ConfidenceRemediation ==
    IF confidence_result.score < 6
    THEN (IF confidence_result.hesitation_count10 > 30
          THEN <<Msg("Practice your answers to reduce hesitation")>> ELSE <<>>)
         \o (IF confidence_result.passive_ratio100 > 15
             THEN <<Msg("Use more active voice to sound more confident")>> ELSE <<>>)
         \o (IF confidence_result.confident_words = 0
             THEN <<Msg("Include confident language like 'definitely', 'certainly'")>>
             ELSE <<>>)
    ELSE <<>>

TechnicalRemediation ==
    IF technical_result.score < 6
    THEN (IF technical_result.missing_concepts # <<>>
          THEN <<MsgWith("Study these key concepts",
                         SubSeq(technical_result.missing_concepts, 1,
                                Min(3, Len(technical_result.missing_concepts))))>>
          ELSE <<>>)
         \o (IF technical_result.coverage_percentage10 < 500
             THEN <<Msg("Focus on covering the fundamental concepts first")>> ELSE <<>>)
    ELSE <<>>

\* The entries of s without those that stand earlier in s, in order
FirstOccurrences(s) ==
    SelectSeq([i \in 1..Len(s) |-> <<i, s[i]>>],
              LAMBDA e : \A j \in 1..(e[1] - 1) : s[j] # e[2])

\* The first five distinct entries of s
FirstFiveDistinct(s) ==
    [i \in 1..Min(5, Len(FirstOccurrences(s))) |-> FirstOccurrences(s)[i][2]]

\* The clarity strengths, as suggestions
ClarityStrengths ==
    [i \in 1..Len(clarity_result.strengths) |-> Msg(clarity_result.strengths[i])]

\* C15: in a result that is not the fallback, suggestions is the first five
\* entries of the order-preserving de-duplication of the clarity, the
\* confidence and the technical remediation phrases followed by every
\* suggestion of the structure report and every suggestion of the coverage
\* report, whatever the scores and the structure report's issues are.
C15_SuggestionsAssembled ==
    (pc = "done" /\ ~AnalyzerRaises) =>
        evaluation.suggestions =
            FirstFiveDistinct(ClarityRemediation \o ConfidenceRemediation
                              \o TechnicalRemediation \o structure_result.suggestions
                              \o coverage_result.suggestions)

\* What holds: the same with the strengths of a clarity report whose score is
\* below 6 put in front
C15_AssembledBehindStrengths ==
    (pc = "done" /\ ~AnalyzerRaises) =>
        evaluation.suggestions =
            FirstFiveDistinct((IF clarity_result.score < 6 THEN ClarityStrengths ELSE <<>>)
                              \o ClarityRemediation \o ConfidenceRemediation
                              \o TechnicalRemediation \o structure_result.suggestions
                              \o coverage_result.suggestions)

\* What holds of the structure report: it has suggestions only when it has
\* issues, so that leaving its suggestions out when it has no issues leaves
\* nothing out
C15_StructureSuggestionsHaveIssues ==
    structure_result # None =>
        (structure_result.suggestions # <<>> => structure_result.issues # <<>>)

\* C16: every entry of suggestions comes from the structure report, from the
\* coverage report, or is a remediation phrase of a dimension whose score is
\* below 6; no entry of the strengths of a report appears in suggestions.
C16_OnlyRemediationFromDimensions ==
    (pc = "done" /\ ~AnalyzerRaises) =>
        /\ \A i \in 1..Len(evaluation.suggestions) :
               evaluation.suggestions[i] \in
                   Range(structure_result.suggestions) \cup Range(coverage_result.suggestions)
                   \cup Range(ClarityRemediation) \cup Range(ConfidenceRemediation)
                   \cup Range(TechnicalRemediation)
        /\ \A r \in {clarity_result, confidence_result, technical_result} :
               \A k \in 1..Len(r.strengths) :
                   Msg(r.strengths[k]) \notin Range(evaluation.suggestions)

\* What holds: a strength among the suggestions is a strength of a clarity
\* report with a score below 6, and a dimension with a score of 6 or more
\* contributes nothing
C16_OnlyClarityStrengthsLeak ==
    (pc = "done" /\ ~AnalyzerRaises) =>
        /\ \A i \in 1..Len(evaluation.suggestions) :
               evaluation.suggestions[i] \in
                   Range(structure_result.suggestions) \cup Range(coverage_result.suggestions)
                   \cup Range(ClarityRemediation) \cup Range(ConfidenceRemediation)
                   \cup Range(TechnicalRemediation)
                   \cup (IF clarity_result.score < 6 THEN Range(ClarityStrengths) ELSE {})
        /\ \A r \in {confidence_result, technical_result} :
               \A k \in 1..Len(r.strengths) :
                   Msg(r.strengths[k]) \notin Range(evaluation.suggestions)

(***************************************************************************)
(* Properties of the confidence scorer                                     *)
(***************************************************************************)
\* The deductions of the confidence score, read off the transcript, the
\* weighted hesitation tally the report gives, and the feature bag
HesitationTier(report) ==
    IF report.hesitation_count10 > 50 THEN 3
    ELSE IF report.hesitation_count10 > 20 THEN 1 ELSE 0

\* The tokens of the transcript as white space separates them, and those that
\* are a passive indicator
PassiveTier ==
    LET tokens == SplitCount(LowerText(answer.transcript))
        passive == PassiveCount(LowerText(answer.transcript))
    IN  IF tokens = 0 THEN 0
        ELSE IF 100 * passive > 20 * tokens THEN 2
        ELSE IF 100 * passive > 15 * tokens THEN 1 ELSE 0

NoConfidentWord ==
    \A k \in 1..Len(confident_words) :
        ~Contains(LowerText(answer.transcript), confident_words[k])

BagPresent(bag) == bag # <<>> /\ bag # None

RateOf(bag) == IF "speaking_rate" \in DOMAIN bag THEN bag.speaking_rate ELSE 150

LongPausesOf(bag) == IF "long_pauses" \in DOMAIN bag THEN bag.long_pauses ELSE 0

RateTier(bag) ==
    IF BagPresent(bag) /\ (RateOf(bag) < 100 \/ RateOf(bag) > 180) THEN 1 ELSE 0

PauseTier(bag) == IF BagPresent(bag) /\ LongPausesOf(bag) > 3 THEN 2 ELSE 0

Indicator(b) == IF b THEN 1 ELSE 0

\* The report is the one of the confidence scorer for the transcript and bag
ConfidenceAsTiers(report, bag) ==
    /\ report.score =
           ClampTo(10 - HesitationTier(report) - PassiveTier - Indicator(NoConfidentWord)
                   - RateTier(bag) - PauseTier(bag), 0, 10)
    /\ Len(report.issues) =
           Indicator(HesitationTier(report) > 0) + Indicator(PassiveTier > 0)
           + Indicator(NoConfidentWord) + RateTier(bag) + Indicator(PauseTier(bag) > 0)
    /\ \A i, j \in 1..Len(report.issues) : i # j => report.issues[i] # report.issues[j]
    /\ "Speaks with minimal hesitation" \in Range(report.strengths)
           <=> HesitationTier(report) = 0
    /\ "Uses active voice effectively" \in Range(report.strengths)
           <=> PassiveTier = 0
    /\ "Good speaking pace" \in Range(report.strengths)
           <=> (BagPresent(bag) /\ RateTier(bag) = 0)

\* C17: the confidence score is clamp(10 - H - P - C - V, 0, 10), H being 3
\* for a weighted hesitation tally above 5, 1 above 2, else 0; P 2 for a
\* passive-indicator token ratio above 0.20, 1 above 0.15, else 0; C 1 when no
\* confident word occurs; V, with a feature bag only, 1 for a speaking rate
\* below 100 or above 180 plus 2 for more than 3 long pauses; each applied
\* deduction adds one issue and each non-deducting tier of H, P and the
\* speaking rate adds a strength.
C17_ConfidenceScore ==
    /\ confidence_result # None => ConfidenceAsTiers(confidence_result, audio_metadata)
    /\ pc = "direct_confidence" =>
           ConfidenceAsTiers(direct_result, direct_result.voice_metrics)

\* The scorer was called with a bag of a slow speaker with five long pauses
\* on a transcript in the middle tier of hesitation and of passive words
C17_Witness ==
    /\ pc = "direct_confidence"
    /\ PauseTier(direct_result.voice_metrics) = 2
    /\ RateTier(direct_result.voice_metrics) = 1
    /\ HesitationTier(direct_result) = 1
    /\ PassiveTier = 1
    /\ direct_result.score = 10 - 1 - 1 - Indicator(NoConfidentWord) - 3

(***************************************************************************)
(* Properties of the lexicon tallies                                       *)
(***************************************************************************)
\* The weighted tally of a table over the transcript, letter case ignored on
\* both sides: hesitation markers count as substrings, fillers as whole words
HesitationTallyAnyCase10 ==
    SumSeq([k \in 1..Len(hesitation_markers) |->
               hesitation_markers[k].weight10
               * CountSub(LowerText(answer.transcript), LowerText(hesitation_markers[k].key))])

FillerTallyAnyCase10 ==
    SumSeq([k \in 1..Len(filler_words) |->
               filler_words[k].weight10
               * CountWhole(LowerText(answer.transcript), LowerText(filler_words[k].key))])

\* The same over the entries of the table that are spelled in lower case
HesitationTallyLowerKeys10 ==
    SumSeq([k \in 1..Len(hesitation_markers) |->
               IF hesitation_markers[k].key = LowerText(hesitation_markers[k].key)
               THEN hesitation_markers[k].weight10
                    * CountSub(LowerText(answer.transcript), hesitation_markers[k].key)
               ELSE 0])

FillerTallyLowerKeys10 ==
    SumSeq([k \in 1..Len(filler_words) |->
               IF filler_words[k].key = LowerText(filler_words[k].key)
               THEN filler_words[k].weight10
                    * CountWhole(LowerText(answer.transcript), filler_words[k].key)
               ELSE 0])

\* C18: lexicon matching ignores letter case for every table entry: each
\* occurrence of a hesitation marker, "I think", "I guess" and "I believe"
\* included, adds its weight to hesitation_count, and each occurrence of a
\* filler, "I mean" included, adds its weight to filler_count, however the
\* transcript is capitalised.
C18_TalliesIgnoreCase ==
    /\ confidence_result # None =>
           confidence_result.hesitation_count10 = HesitationTallyAnyCase10
    /\ clarity_result # None =>
           clarity_result.filler_count10 = FillerTallyAnyCase10

\* What holds: the tallies ignore the case of the transcript and count the
\* entries spelled in lower case; an entry spelled with a capital never counts
C18_TalliesOfLowerKeys ==
    /\ confidence_result # None =>
           confidence_result.hesitation_count10 = HesitationTallyLowerKeys10
    /\ clarity_result # None =>
           clarity_result.filler_count10 = FillerTallyLowerKeys10

(***************************************************************************)
(* Properties of the voice features in evaluate_answer                     *)
(***************************************************************************)
\* The long-pause count the feature extraction of the call reported
ReportedLongPauses == audio_metadata.pause_analysis.long_pauses

\* The call has an audio path, the extraction returned features, and the
\* confidence report is computed
ConfidenceWithFeatures ==
    /\ audio_path # None
    /\ confidence_result # None
    /\ audio_metadata # None /\ audio_metadata # <<>>

\* C19: when evaluate_answer runs with an audio path and the feature
\* extraction reports more than 3 long pauses, the confidence report has 2
\* deducted for them and lists "Frequent long pauses"; when it reports more
\* than 1, the strength "Smooth delivery with minimal pauses" is not recorded.
C19_LongPausesCount ==
    ConfidenceWithFeatures =>
        /\ ReportedLongPauses > 3 =>
               /\ "Frequent long pauses" \in Range(confidence_result.issues)
               /\ confidence_result.score =
                      ClampTo(10 - HesitationTier(confidence_result) - PassiveTier
                              - Indicator(NoConfidentWord) - RateTier(audio_metadata) - 2,
                              0, 10)
        /\ ReportedLongPauses > 1 =>
               "Smooth delivery with minimal pauses"
                   \notin Range(confidence_result.strengths)

\* What holds: whatever long-pause count the extraction reports, the
\* confidence report of evaluate_answer has nothing deducted for long pauses
\* and records the strength
C19_LongPausesNeverRead ==
    ConfidenceWithFeatures =>
        /\ "Frequent long pauses" \notin Range(confidence_result.issues)
        /\ "Smooth delivery with minimal pauses" \in Range(confidence_result.strengths)
        /\ confidence_result.score =
               ClampTo(10 - HesitationTier(confidence_result) - PassiveTier
                       - Indicator(NoConfidentWord) - RateTier(audio_metadata), 0, 10)

\* The audio path of the call names a file whose feature extraction raises
\* inside analyze_audio_features
ExtractionFails == audio_path # None /\ ~audio_path.readable

VoiceIssues == {"Speaking too slowly", "Speaking too quickly", "Frequent long pauses"}

VoiceStrengths == {"Good speaking pace", "Smooth delivery with minimal pauses"}

\* The report has the score, issues and strengths of the transcript alone
TranscriptOnlyReport(report) ==
    /\ report.voice_metrics = <<>>
    /\ report.score =
           ClampTo(10 - HesitationTier(report) - PassiveTier - Indicator(NoConfidentWord),
                   0, 10)
    /\ Range(report.issues) \cap VoiceIssues = {}
    /\ Range(report.strengths) \cap VoiceStrengths = {}

\* C20: a failure of the audio feature extraction does not degrade the
\* evaluation: the voice analysis that raises internally yields an empty
\* feature bag, the confidence report is computed from the transcript alone,
\* with no voice deduction, issue or strength, and evaluate_answer returns
\* the result of the same call without audio, a genuine one unless an
\* analyzer raises on the transcript or the question.
C20_ExtractionFailureNotDegrading ==
    ExtractionFails =>
        /\ pc \notin {"ready", "direct", "direct_confidence"} => audio_metadata = <<>>
        /\ (pc \in {"technical", "structure", "coverage", "aggregate", "done"}
                /\ confidence_result # None)
               => TranscriptOnlyReport(confidence_result)
        /\ pc = "done" =>
               /\ evaluation =
                      RunAlone(NewCall(answer, question, None), hashseed).evaluation
               /\ ~AnalyzerRaises =>
                      /\ evaluation # _create_fallback_evaluation(answer)
                      /\ evaluation.confidence_score = confidence_result
                      /\ TranscriptOnlyReport(evaluation.confidence_score)

\* A call with an unreadable audio file has returned a genuine result whose
\* confidence report carries a deduction made on the transcript
C20_Witness ==
    /\ ExtractionFails
    /\ pc = "done"
    /\ ~AnalyzerRaises
    /\ audio_metadata = <<>>
    /\ answer.audio_duration = 0
    /\ evaluation.confidence_score.score < 10
    /\ evaluation.confidence_score.voice_metrics = <<>>

(***************************************************************************)
(* Properties of the recorded positions and of the structure score         *)
(***************************************************************************)
\* The character offset of the leftmost match of any trigger pattern of the
\* component in the lowered transcript, -1 without a match
FirstMatchOffset(component) ==
    IF TriggerStarts(component) = {} THEN -1
    ELSE CharOffset(LowerText(answer.transcript), SetMin(TriggerStarts(component)))

FirstMatchPositions == [c \in Range(Components) |-> FirstMatchOffset(c)]

\* C21: for every structural component the position recorded in
\* structure_positions is -1 if the component is not detected and otherwise
\* the smallest start offset over all matches of all of the component's
\* trigger patterns, and the order check and the logical_flow label are
\* computed from these first-match positions.
C21_PositionIsFirstMatch ==
    structure_result # None =>
        /\ \A c \in Range(Components) :
               structure_result.structure_positions[c] = FirstMatchOffset(c)
        /\ structure_result.logical_flow =
               _assess_logical_flow(structure_result.structure_detected,
                                    FirstMatchPositions)

\* What holds: an undetected component has position -1, a detected one the
\* start offset of a match that is not left of the leftmost one, and the
\* leftmost one itself when a single pattern of the component matches
C21_PositionIsSomeFirstMatch ==
    structure_result # None =>
        \A c \in Range(Components) :
            /\ ~structure_result.structure_detected[c]
                   => structure_result.structure_positions[c] = -1
            /\ structure_result.structure_detected[c] =>
                   /\ structure_result.structure_positions[c] \in
                          { CharOffset(LowerText(answer.transcript), i) :
                              i \in TriggerStarts(c) }
                   /\ structure_result.structure_positions[c] >= FirstMatchOffset(c)
            /\ Cardinality({k \in 1..Len(structure_patterns(c)) :
                   PatternStarts(LowerText(answer.transcript),
                                 structure_patterns(c)[k]) # {}}) = 1
                   => structure_result.structure_positions[c] = FirstMatchOffset(c)

Detected(component) == structure_result.structure_detected[component]

\* The detected components stand at increasing recorded positions in the
\* order introduction, explanation, example, conclusion.  Sorting the
\* (position, name) tuples puts components at one position in the order of
\* their names, which is the reverse of the canonical order, so components
\* at equal positions are out of order.
DetectedInOrder ==
    \A c, d \in {x \in Range(Components) : Detected(x)} :
        OrderIndex(c) < OrderIndex(d) =>
            structure_result.structure_positions[c]
                < structure_result.structure_positions[d]

\* Sum of the weights of the detected components, in tenths
DetectedWeight10 ==
    (IF Detected("introduction") THEN 25 ELSE 0)
    + (IF Detected("explanation") THEN 30 ELSE 0)
    + (IF Detected("example") THEN 20 ELSE 0)
    + (IF Detected("conclusion") THEN 25 ELSE 0)

\* C22: structure_score equals min(10, sum of the weights of the detected
\* components (introduction 2.5, explanation 3.0, example 2.0, conclusion
\* 2.5) + bonus), the bonus being 1.0 exactly when the detected components
\* sorted by recorded position have non-decreasing canonical-order indices
\* and 0 otherwise; with zero or one detected component the bonus is granted,
\* so a transcript with no detected component scores 1.0.
C22_StructureScore ==
    structure_result # None =>
        /\ structure_result.structure_score10 =
               Min(100, DetectedWeight10 + (IF DetectedInOrder THEN 10 ELSE 0))
        /\ NumDetected <= 1 => structure_result.structure_score10 = DetectedWeight10 + 10
        /\ NumDetected = 0 => structure_result.structure_score10 = 10

\* No component is detected and the score is 1.0
C22_Witness ==
    /\ structure_result # None
    /\ NumDetected = 0
    /\ structure_result.structure_score10 = 10

\* Two components are detected out of order and no bonus is granted
C22_WitnessNoBonus ==
    /\ structure_result # None
    /\ NumDetected = 2
    /\ ~DetectedInOrder
    /\ structure_result.structure_score10 = DetectedWeight10

(***************************************************************************)
(* Properties of the structure issues                                      *)
(***************************************************************************)
MissingIssue(component) ==
    CASE component = "introduction" -> "Missing clear introduction"
      [] component = "explanation" -> "Lacks detailed explanation"
      [] component = "example" -> "No examples provided"
      [] component = "conclusion" -> "Missing conclusion or summary"

\* The issues hold the missing-component issue of each undetected component
\* once, and that of no detected component
MissingIssuesExact ==
    \A c \in Range(Components) :
        Cardinality({i \in 1..Len(structure_result.issues) :
                        structure_result.issues[i] = MissingIssue(c)})
            = (IF Detected(c) THEN 0 ELSE 1)

\* An introduction and an example are detected and the example's recorded
\* position precedes that of every detected explanation
ExampleBeforeAnyExplanation ==
    /\ Detected("introduction") /\ Detected("example")
    /\ Detected("explanation") =>
           structure_result.structure_positions["example"]
               < structure_result.structure_positions["explanation"]

\* C23: the issues of the structure report contain one missing-component
\* issue for each undetected component and no other missing-component issue,
\* and they contain "Example appears before explanation" whenever an
\* introduction is detected and the example's recorded position precedes the
\* recorded position of every detected explanation, also when an explanation
\* is detected later in the transcript than the example.
C23_StructureIssues ==
    structure_result # None =>
        /\ MissingIssuesExact
        /\ ExampleBeforeAnyExplanation =>
               "Example appears before explanation" \in Range(structure_result.issues)

\* What holds: the missing-component issues are as stated, and "Example
\* appears before explanation" is listed exactly when an introduction and an
\* example are detected, no explanation is, and the example is recorded
\* right of the introduction
C23_IssueOnlyWithoutExplanation ==
    structure_result # None =>
        /\ MissingIssuesExact
        /\ "Example appears before explanation" \in Range(structure_result.issues)
               <=> /\ Detected("introduction") /\ Detected("example")
                   /\ ~Detected("explanation")
                   /\ structure_result.structure_positions["example"]
                          > structure_result.structure_positions["introduction"]

\* The issue is listed for an example right of the introduction without any
\* explanation
C23_IssueListed ==
    /\ structure_result # None
    /\ "Example appears before explanation" \in Range(structure_result.issues)

(***************************************************************************)
(* Properties of the rubric concepts in the coverage report                *)
(***************************************************************************)
\* The must-have and good-to-have concepts of the question
RubricConcepts ==
    Range(question.must_have_concepts) \cup Range(question.good_to_have_concepts)

\* The concept occurs in the transcript, letter case ignored on both sides
OccursUpToCase(concept) ==
    Contains(LowerText(answer.transcript), LowerText(concept))

\* C24: CoverageAnalyzer matches rubric concepts case-insensitively: a
\* must-have or good-to-have concept that occurs in the transcript up to
\* letter case is in covered_concepts and not in missing_concepts, so every
\* rubric concept the technical scorer lists as covered for the same
\* transcript and rubric is covered in the coverage report too.
C24_CoverageIgnoresCase ==
    (coverage_result # None /\ technical_result # None /\ question # None) =>
        /\ \A c \in RubricConcepts :
               OccursUpToCase(c) =>
                   /\ c \in Range(coverage_result.covered_concepts)
                   /\ c \notin Range(coverage_result.missing_concepts)
        /\ \A c \in Range(technical_result.covered_concepts) :
               c \in Range(coverage_result.covered_concepts)

\* What holds: a rubric concept is covered in the coverage report exactly
\* when the concepts extracted from the lowered transcript hold it as the
\* rubric spells it, so one spelled with a capital letter is always missing
C24_CoveredAsSpelled ==
    (coverage_result # None /\ question # None) =>
        \A c \in RubricConcepts :
            /\ c \in Range(coverage_result.covered_concepts) <=> c \in TranscriptConcepts
            /\ c \in Range(coverage_result.missing_concepts) <=> c \notin TranscriptConcepts
            /\ c # LowerText(c) => c \in Range(coverage_result.missing_concepts)

(***************************************************************************)
(* Properties of the empty transcript                                      *)
(***************************************************************************)
\* The call is on the empty transcript with a question, so with a rubric
EmptyTranscriptCall == answer.transcript = <<>> /\ question # None

\* C25: an empty transcript is evaluated, not rejected: with a rubric present
\* and the transcript the empty string no analyzer raises, every mean, ratio
\* and percentage being 0 on an empty denominator, evaluate_answer returns a
\* genuine result, and in it the clarity score is 6 and the confidence score
\* without audio features is 9.
C25_EmptyTranscriptEvaluated ==
    (EmptyTranscriptCall /\ pc = "done") =>
        /\ evaluation # _create_fallback_evaluation(answer)
        /\ evaluation.clarity_score # None /\ evaluation.confidence_score # None
        /\ evaluation.technical_score # None
        /\ "structure_score10" \in DOMAIN evaluation.structure_analysis
        /\ "total_expected" \in DOMAIN evaluation.coverage_analysis
        /\ evaluation.clarity_score.score = 6
        /\ evaluation.clarity_score.sentence_count = 0
        /\ evaluation.clarity_score.avg_sentence_length10 = 0
        /\ evaluation.confidence_score.passive_ratio100 = 0
        /\ evaluation.technical_score.score = 0
        /\ evaluation.coverage_analysis.coverage_percentage10 = 0
        /\ evaluation.coverage_analysis.total_covered = 0
        /\ ~BagPresent(audio_metadata) => evaluation.confidence_score.score = 9

\* A call on the empty transcript with a rubric and no audio has returned
C25_Witness ==
    /\ EmptyTranscriptCall /\ pc = "done"
    /\ audio_path = None
    /\ Len(question.must_have_concepts) > 0
    /\ evaluation.clarity_score.score = 6
    /\ evaluation.confidence_score.score = 9

(***************************************************************************)
(* Properties of the concept sets of the coverage report                   *)
(***************************************************************************)
NoDuplicates(s) == \A i, j \in 1..Len(s) : i # j => s[i] # s[j]

\* C26: in every coverage report the covered and missing concepts partition
\* the expected set and the additional concepts are disjoint from it: covered
\* and missing are disjoint, their union is the expected set, additional and
\* expected are disjoint, covered and additional make up the transcript
\* concepts, total_covered = |covered| <= total_expected = |expected|, and
\* total_covered + |missing| = total_expected.
C26_CoveragePartition ==
    (coverage_result # None /\ question # None) =>
        LET covered == Range(coverage_result.covered_concepts)
            missing == Range(coverage_result.missing_concepts)
            additional == Range(coverage_result.additional_concepts)
        IN  /\ covered \cap missing = {}
            /\ covered \cup missing = ExpectedConcepts
            /\ additional \cap ExpectedConcepts = {}
            /\ covered \cup additional = TranscriptConcepts
            /\ NoDuplicates(coverage_result.covered_concepts)
            /\ NoDuplicates(coverage_result.missing_concepts)
            /\ NoDuplicates(coverage_result.additional_concepts)
            /\ coverage_result.total_covered = Len(coverage_result.covered_concepts)
            /\ coverage_result.total_expected = Cardinality(ExpectedConcepts)
            /\ coverage_result.total_covered <= coverage_result.total_expected
            /\ coverage_result.total_covered + Len(coverage_result.missing_concepts)
                   = coverage_result.total_expected

\* A report with covered, missing and additional concepts, more than three
\* of them expected
C26_Witness ==
    /\ coverage_result # None /\ question # None
    /\ coverage_result.covered_concepts # <<>>
    /\ coverage_result.missing_concepts # <<>>
    /\ coverage_result.additional_concepts # <<>>
    /\ coverage_result.total_expected > 3
    /\ hashseed = 1

(***************************************************************************)
(* Properties of the number of suggestions                                 *)
(***************************************************************************)
CoverageQualities == {"excellent", "very_good", "good", "adequate", "poor", "very_poor"}

\* The suggestions the coverage report holds for its quality whatever is
\* missing
QualitySuggestions(quality) ==
    CASE quality \in {"very_poor", "poor"} ->
           {Msg("Focus on covering the fundamental concepts first"),
            Msg("Study the core terminology and definitions")}
      [] quality \in {"adequate", "good"} ->
           {Msg("Add more depth to your explanations"),
            Msg("Include real-world examples to illustrate concepts")}
      [] quality \in {"very_good", "excellent"} ->
           {Msg("Great coverage! Consider edge cases and advanced topics")}

\* C27: the suggestions of every result evaluate_answer returns are
\* non-empty: on the fallback path they hold the one generic suggestion, and
\* on the normal path the coverage report contributes at least one
\* suggestion for each of the six coverage qualities, so the list has
\* between 1 and 5 entries.
C27_SuggestionsNonEmpty ==
    /\ coverage_result # None =>
           /\ coverage_result.coverage_quality \in CoverageQualities
           /\ QualitySuggestions(coverage_result.coverage_quality)
                  \subseteq Range(coverage_result.suggestions)
           /\ Len(coverage_result.suggestions) >= 1
    /\ pc = "done" =>
           /\ 1 <= Len(evaluation.suggestions) /\ Len(evaluation.suggestions) <= 5
           /\ AnalyzerRaises =>
                  evaluation.suggestions =
                      <<Msg("Please try again or contact support if the issue persists")>>

\* A call whose transcript covers the whole rubric has returned: the coverage
\* report holds the praise alone
C27_Witness ==
    /\ pc = "done" /\ ~AnalyzerRaises
    /\ coverage_result.coverage_quality = "excellent"
    /\ Len(coverage_result.suggestions) = 1
    /\ Len(evaluation.suggestions) >= 1

(***************************************************************************)
(* Properties of the structure score of a complete answer                  *)
(***************************************************************************)
\* C28: whenever all four structural components are detected the
\* structure_score is 10.0 whether or not they stand in canonical order, the
\* clamp absorbing the order bonus, so that an answer labelled
\* "disorganized_structure" has the score of one labelled
\* "excellent_structure"; a structure_score below 10 implies that at least
\* one component is undetected.
C28_AllDetectedScoresTen ==
    structure_result # None =>
        /\ NumDetected = 4 => structure_result.structure_score10 = 100
        /\ structure_result.logical_flow \in {"excellent_structure", "disorganized_structure"}
               => structure_result.structure_score10 = 100
        /\ structure_result.structure_score10 < 100 => NumDetected < 4

\* All four components are detected out of canonical order and the score is
\* 10.0
C28_Witness ==
    /\ structure_result # None
    /\ NumDetected = 4
    /\ ~DetectedInOrder
    /\ structure_result.logical_flow = "disorganized_structure"
    /\ structure_result.structure_score10 = 100

\* All four components are detected in canonical order, the score is 10.0
C28_WitnessExcellent ==
    /\ structure_result # None
    /\ DetectedInOrder
    /\ structure_result.logical_flow = "excellent_structure"
    /\ structure_result.structure_score10 = 100

(***************************************************************************)
(* Properties of the stored sessions                                       *)
(***************************************************************************)
Created(s) == sessions[s] # None

\* The workers whose request for session s has written the row and is not
\* answered yet
Written(s) ==
    {w \in Workers : /\ requests[w].session_id = s
                     /\ requests[w].pc = "respond"
                     /\ requests[w].session # None}

AllIdle == \A w \in Workers : requests[w].pc = "idle"

\* C29: after any sequence of session creations and audio or text evaluation
\* requests, the completed_questions stored for a session never exceeds the
\* session's total_questions.
C29_CompletedWithinTotal ==
    \A s \in SessionIds :
        Created(s) => sessions[s].completed_questions <= sessions[s].total_questions

\* What holds: the stored count is at least 0 and at most the number of text
\* requests for the session that have written the row, the total is the one
\* the session was created with, and audio requests, which all fail, leave
\* the row alone
C29_CompletedWithinRequests ==
    \A s \in SessionIds :
        Created(s) =>
            /\ sessions[s].completed_questions >= 0
            /\ sessions[s].completed_questions
                   <= responses[s].ok + Cardinality(Written(s))
            /\ sessions[s].total_questions \in TotalQuestionsChoices

\* C30: no session update is lost under concurrency: for every interleaving
\* of evaluation requests for the same session handled by concurrent workers
\* sharing the database, once n such requests have completed the stored
\* completed_questions has grown by exactly n.
C30_NoLostUpdate ==
    AllIdle =>
        \A s \in SessionIds :
            Created(s) => sessions[s].completed_questions = responses[s].ok

\* What holds: when a single worker has served all the requests, one after
\* another, the stored count has grown by the number of answered text
\* requests for the session
C30_ExactWithoutInterleaving ==
    (AllIdle /\ \E w \in Workers : \A v \in Workers \ {w} : requests[v].served = 0) =>
        \A s \in SessionIds :
            Created(s) => sessions[s].completed_questions = responses[s].ok

\* Two text requests for one session have been answered and the stored count
\* has grown by one
C30_UpdateLost ==
    /\ AllIdle
    /\ \E s \in SessionIds :
           /\ Created(s)
           /\ responses[s].ok = 2
           /\ sessions[s].completed_questions = 1

====
